---- MODULE Spec2Model ----
(***************************************************************************)
(* Debug-session synchronisation and control-flow discovery of the         *)
(* debugger plugin: DebuggerUI (src/ui.py), DebugControlsWidget            *)
(* (src/dockwidgets/ControlsWidget.py) and DebugView                       *)
(* (src/dockwidgets/DebugView.py).                                         *)
(*                                                                         *)
(* The foreground (UI/main) context runs one handler at a time, each to    *)
(* its end, DebuggerUI.on_step included.  Every resume/step command runs   *)
(* on a worker thread whose position is workers[w].  The debug adapter,    *)
(* the IL lifter and the analysis database are oracles: the adapter picks  *)
(* the next stop, the lifter the instruction, the analysis the extent of   *)
(* a function it is asked to create.                                       *)
(***************************************************************************)
EXTENDS Integers, Sequences, FiniteSets, Bags, TLC

VARIABLES
    connected,        \* state.connected
    registers,        \* remote register bank, name -> value (rip, rsp, rax)
    program,          \* the debugged program and its target: code, stops, the
                      \* analysis' extents, stack pointers, architecture,
                      \* the addresses the adapter holds a breakpoint at
    memory,           \* remote memory, mapped address -> byte
    functions,        \* analysis database: set of <<start, length>>
    branches,         \* analysis database: user indirect branches
    comments,         \* analysis database: addresses carrying an annotation
    tags,             \* analysis database: bag of breakpoint tags
                      \* <<function start, address>>
    highlights,       \* analysis database: instruction highlight colours
    breakpoints,      \* state.breakpoints, set of <<module, offset>>
    extra_annotations,\* Settings "debugger.extra_annotations"
    state,            \* controller state (stateObj.state)
    regs,             \* DebuggerUI.regs
    stack,            \* DebuggerUI.stack
    registers_widget, \* what the Registers widget was last given
    stack_widget,     \* what the Stack widget was last given
    bp_widget,        \* what the Breakpoints widget was last given
    modules_widget,   \* the Modules widget: emptied, or marked stale
    threads_widget,   \* what the Threads widget was last given
    thread_menu,      \* the threads the control surface offers for selection
    last_ip,          \* DebuggerUI.last_ip
    view,             \* DebugView: raw pane or static disassembly, and where
    needs_update,     \* DebugView.needs_update
    memory_editor,    \* DebugView.memory_editor: where it was last sent, and
                      \* how many timer ticks have refreshed it (history)
    thread_selected,  \* adapter: the thread its commands apply to, and how
                      \* many thread_select commands it has taken (history)
    break_pending,    \* adapter: asked to interrupt the free-running target
    workers,          \* worker thread -> position and the adapter's answer
    pass              \* record of the last on_step pass (history)

vars == <<connected, registers, program, memory, functions, branches, comments,
          tags, highlights, breakpoints, extra_annotations, state, regs, stack,
          registers_widget, stack_widget, bp_widget, modules_widget,
          threads_widget, thread_menu, last_ip, view, needs_update,
          memory_editor, thread_selected, break_pending, workers, pass>>

-----------------------------------------------------------------------------
(* Bounds of the model and the address layout of the modelled session.     *)

ImgLen == 2          \* addresses backed by the static image
MaxFuncLen == 2      \* longest extent the analysis gives a new function
MaxWorkers == 2      \* worker threads the model lets exist at once
MaxPasses == 2       \* passes counted on one stop
LocalBase == 16      \* bv.start, base of the static image
ModBase == 32        \* remote base of the analyzed binary's module
AddrSize == 2        \* remote_arch.address_size, in bytes
MaxTicks == 2        \* timer ticks counted that refreshed the memory view
MaxSelects == 2      \* thread_select commands counted at the adapter

StackRangeLo == -8
StackRangeHi == 60

original_filename == "bin"

\* bv.entry_point
entry_point == LocalBase

Image == LocalBase .. (LocalBase + ImgLen - 1)

\* The module of the analyzed binary is one address longer than the image
\* that backs it, so "inside the module" and "readable locally" differ.
BinRange == ModBase .. (ModBase + ImgLen)
LibBase == ModBase + ImgLen + 4
LibRange == LibBase .. (LibBase + 1)
NoModuleAddr == ModBase - 4

\* The mapped stack of the remote process.
StackLo == LibBase + 8
StackHi == StackLo + 3 * AddrSize - 1
StackTop == StackLo + AddrSize
Mapped == StackLo .. StackHi

RegOrder == <<"rax", "rsp", "rip">>

-----------------------------------------------------------------------------
(* Oracles: static image, module table, address translation.               *)

\* bv.read(a, 1): bytes inside the image, None outside of it.
Readable(a) == a \in Image

get_module_for_addr(r) ==
    IF r \in BinRange THEN original_filename
    ELSE IF r \in LibRange THEN "lib"
    ELSE "none"

ModuleBaseOf(m) == IF m = original_filename THEN ModBase ELSE LibBase

\* Fault: the translation forgets the base of the static image.
to_local_without_image_base(base, r) == r - base

\* The translation for a module loaded at base:
\* remote_addr - module_base + static_image_base, and back.
to_local(base, r) == r - base + LocalBase

to_remote(base, a) == a - LocalBase + base

remote_addr_to_local(r) == to_local(ModBase, r)

local_addr_to_remote(a) == to_remote(ModBase, a)

is_local_addr(r) == get_module_for_addr(r) = original_filename





get_functions_containing(fns, a) ==
    {f \in fns : f[1] <= a /\ a < f[1] + f[2]}

\* funcs[0]: the analysis lists the functions containing an address by start.
FirstFunction(fs) == CHOOSE f \in fs : \A g \in fs : f[1] <= g[1]

get_function_at(fns, a) == {f \in fns : f[1] = a}

\* bv.add_function(a): the analysis gives the new function its extent
add_function(fns, a) ==
    IF get_function_at(fns, a) # {} THEN fns ELSE fns \cup {<<a, program.extent[a]>>}

set_user_indirect_branches(brs, f, src, dst) ==
    {b \in brs : ~(b.func = f[1] /\ b.src = src)}
        \cup {[func |-> f[1], src |-> src, dst |-> dst]}

-----------------------------------------------------------------------------
(* LLIL expressions and DebuggerUI.evaluate_llil.                          *)

Leaf(op, v, r) ==
    [operation |-> op, value |-> v, reg |-> r, size |-> 0, operands |-> <<>>]

Const(v) == Leaf("LLIL_CONST", v, "")

ConstPtr(v) == Leaf("LLIL_CONST_PTR", v, "")

Reg(r) == Leaf("LLIL_REG", 0, r)

Bin(op, a, b) ==
    [operation |-> op, value |-> 0, reg |-> "", size |-> 0, operands |-> <<a, b>>]

Load(sz, a) ==
    [operation |-> "LLIL_LOAD", value |-> 0, reg |-> "", size |-> sz, operands |-> <<a>>]

IntValue(v) == [kind |-> "int", val |-> v, what |-> ""]

NoneValue == [kind |-> "none", val |-> 0, what |-> ""]

\* an exception of the interpreter, what: its Python type
RaiseOf(what) == [kind |-> "raise", val |-> 0, what |-> what]

\* an operand that is not a number (None from a short read)
Raise == RaiseOf("TypeError")

\* memory_view.read(address, n): the mapped bytes from address on, at most n.
RECURSIVE memory_read(_, _, _)
memory_read(mem, address, n) ==
    IF n <= 0 \/ address \notin DOMAIN mem THEN <<>>
    ELSE <<mem[address]>> \o memory_read(mem, address + 1, n - 1)

\* int(bytes.hex(), 16): the bytes as a big-endian number.
RECURSIVE BytesToInt(_)
BytesToInt(bytes) ==
    IF bytes = <<>> THEN 0
    ELSE 256 * BytesToInt(SubSeq(bytes, 1, Len(bytes) - 1)) + bytes[Len(bytes)]

Reverse(s) == [i \in 1 .. Len(s) |-> s[Len(s) + 1 - i]]

\* BinaryReader.read8/16/32/64 at addr (little-endian target): None when the
\* bytes are not all there.
ReaderRead(mem, addr, n) ==
    LET bytes == memory_read(mem, addr, n)
    IN IF Len(bytes) < n THEN NoneValue ELSE IntValue(BytesToInt(Reverse(bytes)))

\* Fault: a load of any width reads as many bytes as the load is wide.
LoadWidthOfSize(sz) == sz

\* lines 213-220: read8, read16, read32, and read64 for every other size
LoadWidth(sz) == IF sz \in {1, 2, 4} THEN sz ELSE 8

\* Fault: LLIL_ADD subtracts.
ArithAddSubtracts(op, a, b) ==
    IF a.kind # "int" \/ b.kind # "int" THEN Raise
    ELSE CASE op = "LLIL_ADD" -> IntValue(a.val - b.val)
           [] op = "LLIL_SUB" -> IntValue(a.val - b.val)
           [] op = "LLIL_MUL" -> IntValue(a.val * b.val)
           [] op = "LLIL_LSL" -> IF b.val < 0 THEN RaiseOf("ValueError")
                                 ELSE IntValue(a.val * (2 ^ b.val))
           [] op = "LLIL_LSR" -> IF b.val < 0 THEN RaiseOf("ValueError")
                                 ELSE IntValue(a.val \div (2 ^ b.val))

\* The addresses of the target are AddrSize bytes wide.
AddrBits == 8 * AddrSize

AddrSpace == 2 ^ AddrBits

\* Fault: the result of an operator is cut to the width of an address.
ArithWraps(op, a, b) ==
    IF a.kind # "int" \/ b.kind # "int" THEN Raise
    ELSE CASE op = "LLIL_ADD" -> IntValue((a.val + b.val) % AddrSpace)
           [] op = "LLIL_SUB" -> IntValue((a.val - b.val) % AddrSpace)
           [] op = "LLIL_MUL" -> IntValue((a.val * b.val) % AddrSpace)
           [] op = "LLIL_LSL" -> IF b.val < 0 THEN RaiseOf("ValueError")
                                 ELSE IntValue((a.val * (2 ^ b.val)) % AddrSpace)
           [] op = "LLIL_LSR" -> IF b.val < 0 THEN RaiseOf("ValueError")
                                 ELSE IntValue(a.val \div (2 ^ b.val))

\* lines 225-234: Python integers, of any size and sign
Arith(op, a, b) ==
    IF a.kind # "int" \/ b.kind # "int" THEN Raise
    ELSE CASE op = "LLIL_ADD" -> IntValue(a.val + b.val)
           [] op = "LLIL_SUB" -> IntValue(a.val - b.val)
           [] op = "LLIL_MUL" -> IntValue(a.val * b.val)
           [] op = "LLIL_LSL" -> IF b.val < 0 THEN RaiseOf("ValueError")
                                 ELSE IntValue(a.val * (2 ^ b.val))
           [] op = "LLIL_LSR" -> IF b.val < 0 THEN RaiseOf("ValueError")
                                 ELSE IntValue(a.val \div (2 ^ b.val))

\* Fault: an operation that is not implemented evaluates to 0.
RECURSIVE evaluate_llil_defaults_zero(_, _, _)
evaluate_llil_defaults_zero(rgs, mem, llil) ==
    CASE llil.operation = "LLIL_CONST" -> IntValue(llil.value)
      [] llil.operation = "LLIL_CONST_PTR" -> IntValue(llil.value)
      [] llil.operation = "LLIL_REG" -> IntValue(rgs[llil.reg])
      [] llil.operation = "LLIL_LOAD" ->
            LET addr == evaluate_llil_defaults_zero(rgs, mem, llil.operands[1])
            IN IF addr.kind = "raise" THEN addr
               ELSE IF addr.kind # "int" THEN Raise
               ELSE ReaderRead(mem, addr.val, LoadWidth(llil.size))
      [] llil.operation \in {"LLIL_ADD", "LLIL_SUB", "LLIL_MUL", "LLIL_LSL", "LLIL_LSR"} ->
            LET a == evaluate_llil_defaults_zero(rgs, mem, llil.operands[1])
            IN IF a.kind = "raise" THEN a
               ELSE LET b == evaluate_llil_defaults_zero(rgs, mem, llil.operands[2])
                    IN IF b.kind = "raise" THEN b
                       ELSE Arith(llil.operation, a, b)
      [] OTHER -> IntValue(0)

RECURSIVE evaluate_llil(_, _, _)
evaluate_llil(rgs, mem, llil) ==
    CASE llil.operation = "LLIL_CONST" -> IntValue(llil.value)
      [] llil.operation = "LLIL_CONST_PTR" -> IntValue(llil.value)
      [] llil.operation = "LLIL_REG" -> IntValue(rgs[llil.reg])
      [] llil.operation = "LLIL_LOAD" ->
            LET addr == evaluate_llil(rgs, mem, llil.operands[1])
            IN IF addr.kind = "raise" THEN addr
               ELSE IF addr.kind # "int" THEN Raise
               ELSE ReaderRead(mem, addr.val, LoadWidth(llil.size))
      [] llil.operation \in {"LLIL_ADD", "LLIL_SUB", "LLIL_MUL", "LLIL_LSL", "LLIL_LSR"} ->
            LET a == evaluate_llil(rgs, mem, llil.operands[1])
            IN IF a.kind = "raise" THEN a
               ELSE LET b == evaluate_llil(rgs, mem, llil.operands[2])
                    IN IF b.kind = "raise" THEN b
                       ELSE Arith(llil.operation, a, b)
      [] OTHER -> RaiseOf("NotImplementedError")
-----------------------------------------------------------------------------
(* The store: what the foreground code reads and writes while it handles   *)
(* one event.  A handler takes the store of the current state, runs its    *)
(* calls on it one after the other, and the result is the next state.      *)

Store ==
    [connected |-> connected, registers |-> registers,
     functions |-> functions, branches |-> branches, comments |-> comments,
     tags |-> tags, highlights |-> highlights, breakpoints |-> breakpoints,
     state |-> state, regs |-> regs, stack |-> stack,
     registers_widget |-> registers_widget, stack_widget |-> stack_widget,
     bp_widget |-> bp_widget, modules_widget |-> modules_widget,
     threads_widget |-> threads_widget, thread_menu |-> thread_menu,
     last_ip |-> last_ip, view |-> view, needs_update |-> needs_update]

ip(s) == s.registers["rip"]

stack_pointer(s) == s.registers["rsp"]

local_ip(s) == remote_addr_to_local(ip(s))

\* detect_new_code line 245: the lifter on the bytes at the remote ip
insn(s) == program.code[ip(s)]

-----------------------------------------------------------------------------
(* DebuggerUI.detect_new_code.  The result is the database after the pass   *)
(* and the exception it ended with, if any: what was written before a      *)
(* raise stays written.                                                     *)

Done(fns, brs) == [fns |-> fns, brs |-> brs, exc |-> "none"]

Raised(fns, brs, what) == [fns |-> fns, brs |-> brs, exc |-> what]

\* lines 249-255
DiscoverAtIp(s) ==
    IF get_module_for_addr(ip(s)) = original_filename
       /\ get_functions_containing(s.functions, local_ip(s)) = {}
    THEN add_function(s.functions, local_ip(s))
    ELSE s.functions

\* Fault: the call branch never calls add_function.
DiscoverCallNoCreate(s, fns) ==
    LET remote_target == evaluate_llil(s.registers, memory, insn(s).dest)
        local_target == remote_addr_to_local(remote_target.val)
    IN IF remote_target.kind = "raise"
       THEN Raised(fns, s.branches, "llil eval failed")
       ELSE IF remote_target.kind = "int"
               /\ get_module_for_addr(remote_target.val) = original_filename
               /\ ~Readable(local_target)
       THEN Raised(fns, s.branches, "Local address that is not local?")
       ELSE Done(fns, s.branches)

\* Fault: the call branch does not return early on a covered target.
DiscoverCallNoCoverCheck(s, fns) ==
    LET remote_target == evaluate_llil(s.registers, memory, insn(s).dest)
        local_target == remote_addr_to_local(remote_target.val)
    IN IF remote_target.kind = "raise"
       THEN Raised(fns, s.branches, "llil eval failed")
       ELSE IF remote_target.kind = "int"
               /\ get_module_for_addr(remote_target.val) = original_filename
       THEN IF ~Readable(local_target)
            THEN Raised(fns, s.branches, "Local address that is not local?")
            ELSE Done(add_function(fns, local_target), s.branches)
       ELSE Done(fns, s.branches)

\* Fault: a failed evaluation of the call target is caught and ignored.
DiscoverCallSwallowsFailure(s, fns) ==
    LET remote_target == evaluate_llil(s.registers, memory, insn(s).dest)
        local_target == remote_addr_to_local(remote_target.val)
    IN IF remote_target.kind = "raise"
       THEN Done(fns, s.branches)
       ELSE IF remote_target.kind = "int"
               /\ get_module_for_addr(remote_target.val) = original_filename
       THEN IF ~Readable(local_target)
            THEN Raised(fns, s.branches, "Local address that is not local?")
            ELSE IF get_functions_containing(fns, local_target) # {}
            THEN Done(fns, s.branches)
            ELSE Done(add_function(fns, local_target), s.branches)
       ELSE Done(fns, s.branches)

\* Fault: the call branch does not ask the image for the byte at the
\* target before it creates the function.
DiscoverCallNoReadCheck(s, fns) ==
    LET remote_target == evaluate_llil(s.registers, memory, insn(s).dest)
        local_target == remote_addr_to_local(remote_target.val)
    IN IF remote_target.kind = "raise"
       THEN Raised(fns, s.branches, "llil eval failed")
       ELSE IF remote_target.kind = "int"
               /\ get_module_for_addr(remote_target.val) = original_filename
       THEN IF get_functions_containing(fns, local_target) # {}
            THEN Done(fns, s.branches)
            ELSE Done(fns \cup {<<local_target, 1>>}, s.branches)
       ELSE Done(fns, s.branches)

\* lines 256-270
DiscoverCall(s, fns) ==
    LET remote_target == evaluate_llil(s.registers, memory, insn(s).dest)
        local_target == remote_addr_to_local(remote_target.val)
    IN IF remote_target.kind = "raise"
       THEN Raised(fns, s.branches, "llil eval failed")
       ELSE IF remote_target.kind = "int"
               /\ get_module_for_addr(remote_target.val) = original_filename
       THEN IF ~Readable(local_target)
            THEN Raised(fns, s.branches, "Local address that is not local?")
            ELSE IF get_functions_containing(fns, local_target) # {}
            THEN Done(fns, s.branches)
            ELSE Done(add_function(fns, local_target), s.branches)
       ELSE Done(fns, s.branches)

\* Fault: a jump is handled the way a call is.
DiscoverJumpAsCall(s, fns) == DiscoverCall(s, fns)

\* lines 271-296
DiscoverJump(s, fns) ==
    LET remote_target == evaluate_llil(s.registers, memory, insn(s).dest)
        local_target == remote_addr_to_local(remote_target.val)
        funcs == get_functions_containing(fns, local_ip(s))
    IN IF remote_target.kind = "raise"
       THEN Raised(fns, s.branches, "llil eval failed")
       ELSE IF remote_target.kind = "int"
               /\ get_module_for_addr(remote_target.val) = original_filename
       THEN IF ~Readable(local_target)
            THEN Raised(fns, s.branches, "Local address that is not local?")
            ELSE IF get_functions_containing(fns, local_target) # {}
            THEN Done(fns, s.branches)
            ELSE IF get_module_for_addr(ip(s)) = original_filename
            THEN IF ~Readable(local_ip(s))
                 THEN Raised(fns, s.branches, "Local address that is not local?")
                 ELSE IF funcs = {}
                 THEN Raised(fns, s.branches, "Local rip is not at a function?")
                 ELSE Done(fns, set_user_indirect_branches(
                               s.branches, FirstFunction(funcs),
                               local_ip(s), local_target))
            ELSE Done(fns, s.branches)
       ELSE Done(fns, s.branches)

\* lines 238-296
detect_new_code(s) ==
    IF ~s.connected THEN Done(s.functions, s.branches)
    ELSE IF insn(s).operation = "UNDECODABLE"
    THEN Raised(s.functions, s.branches, "no llil")
    ELSE IF get_module_for_addr(ip(s)) = original_filename
            /\ ~Readable(local_ip(s))
    THEN Raised(s.functions, s.branches, "Local address that is not local?")
    ELSE LET fns1 == DiscoverAtIp(s)
         IN IF insn(s).operation = "LLIL_CALL"
            THEN DiscoverCall(s, fns1)
            ELSE IF insn(s).operation \in {"LLIL_JUMP", "LLIL_JUMP_TO"}
            THEN DiscoverJump(s, fns1)
            ELSE Done(fns1, s.branches)

-----------------------------------------------------------------------------
(* DebuggerUI.context_display and what it calls.                            *)

\* lines 71-79: self.regs
RegsSnapshot(rgs) ==
    [i \in 1 .. Len(RegOrder) |->
        [name |-> RegOrder[i], bits |-> program.address_size * 8,
         value |-> rgs[RegOrder[i]]]]

\* lines 118-121: the bytes of a slot as a number, in the target's byte order
ValueInt(value) ==
    BytesToInt(IF program.endianness = "LittleEndian" THEN Reverse(value) ELSE value)

\* Fault: a slot value of 0 is matched against the registers as well.
RECURSIVE SlotRefsMatchZero(_, _, _)
SlotRefsMatchZero(rs, address, value_int) ==
    IF rs = <<>> THEN <<>>
    ELSE LET reg == Head(rs)
             toAddress == IF reg.value = address
                          THEN <<[source |-> "register", dest |-> "address",
                                  register |-> reg.name]>>
                          ELSE <<>>
             toValue == IF reg.value = value_int
                        THEN <<[source |-> "register", dest |-> "value",
                                register |-> reg.name]>>
                        ELSE <<>>
         IN toAddress \o toValue \o SlotRefsMatchZero(Tail(rs), address, value_int)

\* lines 123-138: the cross-references of one slot, register by register
RECURSIVE SlotRefs(_, _, _)
SlotRefs(rs, address, value_int) ==
    IF rs = <<>> THEN <<>>
    ELSE LET reg == Head(rs)
             toAddress == IF reg.value = address
                          THEN <<[source |-> "register", dest |-> "address",
                                  register |-> reg.name]>>
                          ELSE <<>>
             toValue == IF value_int # 0 /\ reg.value = value_int
                        THEN <<[source |-> "register", dest |-> "value",
                                register |-> reg.name]>>
                        ELSE <<>>
         IN toAddress \o toValue \o SlotRefs(Tail(rs), address, value_int)

\* Fault: a slot is recorded with the bytes a short read returned.
StackSlotKeepsShortRead(i, sp, size, mem, rs) ==
    LET offset == i * size
        address == sp + offset
        value == memory_read(mem, address, size)
        skipped == (offset < 0 /\ sp < -offset) \/ Len(value) = 0
    IN [keep |-> ~skipped,
        entry |-> [offset |-> offset, value |-> value, address |-> address,
                   refs |-> IF skipped THEN <<>>
                            ELSE SlotRefs(rs, address, ValueInt(value))]]

\* lines 106-145: one slot of the window; keep says whether it is recorded
StackSlot(i, sp, size, mem, rs) ==
    LET offset == i * size
        address == sp + offset
        value == memory_read(mem, address, size)
        skipped == (offset < 0 /\ sp < -offset) \/ Len(value) < size
    IN [keep |-> ~skipped,
        entry |-> [offset |-> offset, value |-> value, address |-> address,
                   refs |-> IF skipped THEN <<>>
                            ELSE SlotRefs(rs, address, ValueInt(value))]]

\* Fault: the window is walked from its last index down to its first.
StackSampleDownwards(sp, size, mem, rs) ==
    LET window == [k \in 1 .. (StackRangeHi - StackRangeLo + 1) |->
                       StackSlot(StackRangeHi - k + 1, sp, size, mem, rs)]
        Kept(x) == x.keep
        kept == SelectSeq(window, Kept)
    IN [k \in 1 .. Len(kept) |-> kept[k].entry]

\* lines 102-146: self.stack
StackSample(sp, size, mem, rs) ==
    LET window == [k \in 1 .. (StackRangeHi - StackRangeLo + 1) |->
                       StackSlot(StackRangeLo + k - 1, sp, size, mem, rs)]
        Kept(x) == x.keep
        kept == SelectSeq(window, Kept)
    IN [k \in 1 .. Len(kept) |-> kept[k].entry]

\* func.set_auto_instr_highlight(a, color) for every func of fs
SetHighlight(hl, fs, a, color) ==
    {h \in hl : ~(h.func \in {f[1] : f \in fs} /\ h.addr = a)}
        \cup (IF color = "NoHighlightColor" THEN {}
              ELSE {[func |-> f[1], addr |-> a, color |-> color] : f \in fs})

\* lines 314-317: the local addresses of the breakpoints of the binary
BreakpointAddrs(bps) ==
    {LocalBase + b[2] : b \in {x \in bps : x[1] = original_filename}}

\* lines 309-326
update_highlights(s) ==
    LET cleared == SetHighlight(s.highlights,
                                get_functions_containing(s.functions, s.last_ip),
                                s.last_ip, "NoHighlightColor")
        reds == {[func |-> x[1][1], addr |-> x[2], color |-> "RedHighlightColor"] :
                    x \in {y \in s.functions \X BreakpointAddrs(s.breakpoints) :
                              y[1] \in get_functions_containing(s.functions, y[2])}}
        red == {h \in cleared :
                   ~\E r \in reds : r.func = h.func /\ r.addr = h.addr} \cup reds
    IN IF s.connected
       THEN SetHighlight(red, get_functions_containing(s.functions, local_ip(s)),
                         local_ip(s), "BlueHighlightColor")
       ELSE red

\* Fault: the two outcomes of the test are exchanged.
ClassifySwapped(s) ==
    IF Readable(local_ip(s))
       /\ get_functions_containing(s.functions, local_ip(s)) # {}
    THEN "STOPPED_EXTERN"
    ELSE "STOPPED"

\* Fault: the test asks for a function that starts at the ip, not for
\* one that contains it.
ClassifyByFunctionStart(s) ==
    IF Readable(local_ip(s))
       /\ get_function_at(s.functions, local_ip(s)) # {}
    THEN "STOPPED"
    ELSE "STOPPED_EXTERN"

\* lines 155-159
Classify(s) ==
    IF Readable(local_ip(s))
       /\ get_functions_containing(s.functions, local_ip(s)) # {}
    THEN "STOPPED"
    ELSE "STOPPED_EXTERN"

\* Fault: the refresh takes the registers and leaves the stack window.
context_display_keeps_stack(s) ==
    IF ~s.connected
    THEN [s EXCEPT !.registers_widget = <<>>, !.modules_widget = "empty",
                   !.threads_widget = <<>>, !.thread_menu = <<>>,
                   !.stack_widget = <<>>, !.needs_update = TRUE]
    ELSE LET rs == RegsSnapshot(s.registers)
         IN [s EXCEPT !.regs = rs,
                      !.registers_widget = rs, !.stack_widget = s.stack,
                      !.modules_widget = "stale",
                      !.threads_widget = program.threads,
                      !.thread_menu = program.threads,
                      !.highlights = update_highlights(s),
                      !.last_ip = local_ip(s),
                      !.state = Classify(s),
                      !.needs_update = TRUE]

\* lines 45-159
context_display(s) ==
    IF ~s.connected
    THEN [s EXCEPT !.registers_widget = <<>>, !.modules_widget = "empty",
                   !.threads_widget = <<>>, !.thread_menu = <<>>,
                   !.stack_widget = <<>>, !.needs_update = TRUE]
    ELSE LET rs == RegsSnapshot(s.registers)
             st == StackSample(stack_pointer(s), program.address_size, memory, rs)
         IN [s EXCEPT !.regs = rs, !.stack = st,
                      !.registers_widget = rs, !.stack_widget = st,
                      !.modules_widget = "stale",
                      !.threads_widget = program.threads,
                      !.thread_menu = program.threads,
                      !.highlights = update_highlights(s),
                      !.last_ip = local_ip(s),
                      !.state = Classify(s),
                      !.needs_update = TRUE]

\* adapter.breakpoint_list(): the breakpoints of the session the adapter
\* holds in the target
RemoteBreakpointList(bps) ==
    {ModuleBaseOf(b[1]) + b[2] : b \in bps} \cap program.armed

\* Fault: every breakpoint of a connected session is reported enabled.
update_breakpoints_all_enabled(s) ==
    [s EXCEPT !.bp_widget =
        {[enabled |-> s.connected,
          offset |-> b[2], module |-> b[1],
          address |-> IF s.connected THEN ModuleBaseOf(b[1]) + b[2] ELSE 0] :
            b \in s.breakpoints}]

\* lines 347-370
update_breakpoints(s) ==
    [s EXCEPT !.bp_widget =
        {[enabled |-> s.connected
                      /\ (ModuleBaseOf(b[1]) + b[2])
                             \in RemoteBreakpointList(s.breakpoints),
          offset |-> b[2], module |-> b[1],
          address |-> IF s.connected THEN ModuleBaseOf(b[1]) + b[2] ELSE 0] :
            b \in s.breakpoints}]

\* DebugView.navigate
navigate(s, addr) ==
    LET local == remote_addr_to_local(addr)
    IN IF ~is_local_addr(addr) THEN [raw |-> TRUE, addr |-> addr]
       ELSE IF Readable(local) /\ get_functions_containing(s.functions, local) # {}
       THEN [raw |-> FALSE, addr |-> local]
       ELSE [raw |-> TRUE, addr |-> local]

\* Fault: the navigation goes to the ip whether or not there is a session.
navigate_to_rip_always_ip(s) == [s EXCEPT !.view = navigate(s, ip(s))]

\* lines 298-306
navigate_to_rip(s) ==
    [s EXCEPT !.view = navigate(s, IF ~s.connected THEN entry_point ELSE ip(s))]

\* Fault: the annotation is written whatever the option says.
annotate_context_ungated(s) ==
    IF s.connected /\ Readable(local_ip(s))
       /\ get_function_at(s.functions, local_ip(s)) # {}
    THEN [s EXCEPT !.comments = @ \cup {local_ip(s)}]
    ELSE s

\* lines 169-196
annotate_context(s) ==
    IF extra_annotations /\ s.connected /\ Readable(local_ip(s))
       /\ get_function_at(s.functions, local_ip(s)) # {}
    THEN [s EXCEPT !.comments = @ \cup {local_ip(s)}]
    ELSE s

-----------------------------------------------------------------------------
(* What the adapter and the lifter may answer.                              *)

StopAddrs == BinRange \cup {LibBase, NoModuleAddr}

Unsupported == Bin("LLIL_AND", Const(0), Const(0))

Instr(op, d) == [operation |-> op, dest |-> d]

Other == Instr("LLIL_NOP", Const(0))

Undecodable == Instr("UNDECODABLE", Const(0))

\* Code memory does not change during a session.  A program gives the
\* instruction at every address the target may halt at (stops), and rax, the
\* register its computed calls and jumps go through.
Program(rax, stops, code) ==
    [rax |-> rax, stops |-> stops,
     code |-> [r \in StopAddrs |-> IF r \in stops THEN code[r] ELSE Undecodable]]

A0 == ModBase

A1 == ModBase + 1

Beyond == ModBase + ImgLen

\* The programs of the session specification: a call to an address without
\* a function, a call whose target cannot be evaluated, a stop outside of
\* every module.
Programs ==
    { Program(A1, {A0, A1, NoModuleAddr},
              (A0 :> Instr("LLIL_CALL", Const(A1)))
                  @@ (A1 :> Instr("LLIL_CALL", Unsupported))
                  @@ (NoModuleAddr :> Other)) }

\* The programs of the discovery specification: calls and jumps from inside
\* and outside of the analyzed module, to targets with and without bytes
\* in the image, through constants, a register and the stack.
DiscoveryPrograms ==
    Programs \cup
    { Program(A1, {A0, A1, LibBase},
              (A0 :> Instr("LLIL_JUMP_TO", Reg("rax")))
                  @@ (A1 :> Instr("LLIL_JUMP", ConstPtr(A0)))
                  @@ (LibBase :> Instr("LLIL_JUMP", Const(A1)))),
      Program(NoModuleAddr, {A0, A1, Beyond},
              (A0 :> Instr("LLIL_CALL", Const(Beyond)))
                  @@ (A1 :> Instr("LLIL_JUMP", Const(A1)))
                  @@ (Beyond :> Other)),
      Program(NoModuleAddr, {A0, A1, LibBase},
              (A0 :> Instr("LLIL_CALL", Reg("rax")))
                  @@ (A1 :> Instr("LLIL_JUMP", Unsupported))
                  @@ (LibBase :> Instr("LLIL_CALL", Const(A0)))),
      Program(A0, {A1, LibBase, NoModuleAddr},
              (A1 :> Instr("LLIL_JUMP", Const(Beyond)))
                  @@ (LibBase :> Instr("LLIL_CALL", Const(LibBase + 1)))
                  @@ (NoModuleAddr :> Instr("LLIL_JUMP", Reg("rax")))),
      Program(A0, {A0, A1, LibBase, NoModuleAddr},
              (A0 :> Other)
                  @@ (A1 :> Instr("LLIL_CALL", Load(AddrSize, Reg("rsp"))))
                  @@ (LibBase :> Instr("LLIL_CALL",
                                       Bin("LLIL_ADD", Reg("rax"), Const(1))))
                  @@ (NoModuleAddr :> Undecodable)) }

\* The target expressions of the evaluation specification: the operands,
\* every operator on two operands (LLIL_AND stands for the operators
\* evaluate_llil does not implement), loads of whole, partial and unmapped
\* values, and expressions on operands that are expressions themselves.
EvalOperands == {Const(5), Const(3), Const(-1), ConstPtr(A0), Reg("rax")}

EvalCounts == {Const(3), Const(-1), Reg("rax")}

EvalLoads ==
    {Load(sz, a) : sz \in {1, AddrSize},
                   a \in {ConstPtr(StackTop), ConstPtr(StackHi), Const(3)}}

EvalInner ==
    {Bin("LLIL_ADD", Const(5), Const(3)), Bin("LLIL_LSL", Const(5), Const(-1)),
     Bin("LLIL_SUB", ConstPtr(A0), Reg("rax")), Unsupported,
     Load(AddrSize, ConstPtr(StackTop)), Load(AddrSize, Const(3))}

Expressions ==
    EvalOperands \cup EvalLoads
      \cup {Bin(op, a, b) : op \in {"LLIL_ADD", "LLIL_SUB", "LLIL_MUL", "LLIL_AND"},
                            a \in EvalOperands, b \in EvalOperands}
      \cup {Bin(op, a, b) : op \in {"LLIL_LSL", "LLIL_LSR"},
                            a \in EvalOperands, b \in EvalCounts}
      \cup {Bin(op, a, b) : op \in {"LLIL_ADD", "LLIL_SUB", "LLIL_XOR"},
                            a \in EvalInner, b \in EvalInner}
      \cup {Load(AddrSize, a) : a \in EvalInner}

\* The programs of the evaluation specification: a call in the analyzed
\* module and a jump outside of it, both to the same expression.
EvaluationPrograms ==
    {Program(2, {A0, LibBase},
             (A0 :> Instr("LLIL_CALL", e)) @@ (LibBase :> Instr("LLIL_JUMP", e))) :
        e \in Expressions}

\* The targets of the stack specification: the stack pointer is within a
\* few bytes of address 0, so that the window reaches below it; memory
\* starts at 0 and is mapped whole, with a hole, or for a few bytes only,
\* and holds zeroes or a pattern of small numbers.
LowTop == 4 * AddrSize + 3

LowPointers == {[r \in StopAddrs |-> IF r = A0 THEN a ELSE a + 3] : a \in 0 .. 4}

LowMemories ==
    {[a \in 0 .. LowTop |-> IF a % 3 = 0 THEN 1 ELSE 0],
     [a \in 0 .. LowTop |-> 0],
     [a \in (0 .. LowTop) \ {4, 5} |-> IF a % 3 = 0 THEN 1 ELSE 0],
     [a \in 0 .. 3 |-> 1]}

StackPrograms == {Program(1, {A0, LibBase}, (A0 :> Other) @@ (LibBase :> Other))}

\* The targets of the load specification: loads of every width the
\* interpreter tells apart, and of two it does not, at addresses where the
\* widest read is there in full, where only a narrower one is, and where
\* nothing is mapped.  The bytes at 0 and 1 have their top bit set; the
\* bytes from 4 on are zero.
LoadSizes == {1, 2, 4, 8, 3, 16}

LoadAddrs == {0, 2, 3, 12}

LoadBytes == <<200, 129, 3, 1>>

LoadMemories ==
    {[a \in 0 .. top |-> IF a < Len(LoadBytes) THEN LoadBytes[a + 1] ELSE 0] :
        top \in {6, 9}}

LoadPrograms ==
    {Program(a, {A0, LibBase},
             (A0 :> Instr("LLIL_CALL", Load(sz, ConstPtr(a))))
                 @@ (LibBase :> Instr("LLIL_JUMP", Load(sz, Reg("rax"))))) :
        sz \in LoadSizes, a \in LoadAddrs}

\* The targets of the wide specification: results below 0 and past the
\* width of an address, each of which is an address of the analyzed module
\* once cut to that width, and a shift back of a value that was past it.
WideExpressions ==
    {Const(A1),
     Bin("LLIL_ADD", Const(A1), Const(AddrSpace)),
     Bin("LLIL_SUB", Const(A1), Const(AddrSpace)),
     Bin("LLIL_ADD", Bin("LLIL_MUL", Const(AddrSpace \div 2), Const(2)), Reg("rax")),
     Bin("LLIL_ADD", Bin("LLIL_LSL", Const(1), Const(AddrBits)), Const(A1)),
     Bin("LLIL_LSR", Bin("LLIL_LSL", Reg("rax"), Const(AddrBits)), Const(AddrBits))}

WidePrograms ==
    {Program(A1, {A0, LibBase},
             (A0 :> Instr("LLIL_CALL", e)) @@ (LibBase :> Instr("LLIL_JUMP", e))) :
        e \in WideExpressions}

\* The analysis gives a function the same extent whenever it creates it.
Extents == [Image -> 1 .. MaxFuncLen]

\* The analyses of the session specification: every function has one
\* address, or every function is as long as a function gets.
UniformExtents == {[a \in Image |-> 1], [a \in Image |-> MaxFuncLen]}

\* The stack pointer the target has at each of its stops.
StackPointers == [r \in StopAddrs |-> IF r = A0 THEN StackLo ELSE StackTop]

\* Every address the session may set a breakpoint at.
BreakpointSites ==
    {ModuleBaseOf(m) + o : m \in {original_filename, "lib"}, o \in 0 .. ImgLen}

\* state.threads: the threads of the target, by their id.
ThreadIds == <<1, 2>>

\* A session debugs one program under one analysis, on one target.
Session(p, e, sp, size, endianness, armed) ==
    [code |-> p.code, stops |-> p.stops, rax |-> p.rax, extent |-> e, sp |-> sp,
     address_size |-> size, endianness |-> endianness, armed |-> armed,
     threads |-> ThreadIds]

\* The sessions on a little-endian target whose adapter takes every
\* breakpoint.
Sessions(programs, extents) ==
    {Session(p, e, StackPointers, AddrSize, "LittleEndian", BreakpointSites) :
        p \in programs, e \in extents}

\* The sessions of the stack specification, on both byte orders and with
\* addresses of one byte and of AddrSize bytes.
StackSessions ==
    {Session(p, [a \in Image |-> 1], sp, size, endianness, BreakpointSites) :
        p \in StackPrograms, sp \in LowPointers, size \in {1, AddrSize},
        endianness \in {"LittleEndian", "BigEndian"}}

\* The sessions of the breakpoint specification: the adapter holds every
\* breakpoint, the one at the module base only, or none.
BreakpointSessions ==
    {Session(p, [a \in Image |-> 1], StackPointers, AddrSize, "LittleEndian", armed) :
        p \in Programs, armed \in {BreakpointSites, {ModBase}, {}}}

\* The stops of the running program.
Stops ==
    {[registers EXCEPT !.rip = r, !.rsp = program.sp[r]] : r \in program.stops}

Idle == [pc |-> "none", reason |-> "none"]

Workers == 1 .. MaxWorkers

\* The toggle-breakpoint command is offered at these static addresses.
ToggleAddrs == {LocalBase + 1}

-----------------------------------------------------------------------------
(* The control surface (binjaplug.state_* are not part of these sources:   *)
(* the enabling follows the specification of the control surface).          *)

ActionEnabled(action) ==
    CASE action = "Run" -> state = "INACTIVE"
      [] action \in {"Resume", "StepInto", "StepOver", "StepReturn"} ->
            state \in {"STOPPED", "STOPPED_EXTERN"}
      [] action = "Break" -> state = "RUNNING"
      [] OTHER -> TRUE

\* Fault: the context refresh is called before the annotation.
OnStepCallsRefreshFirst ==
    <<"detect_new_code", "context_display", "annotate_context",
      "update_breakpoints", "navigate_to_rip">>

\* DebuggerUI.on_step, lines 162-167: its calls, in the order it makes them
OnStepCalls ==
    <<"detect_new_code", "annotate_context", "context_display",
      "update_breakpoints", "navigate_to_rip">>

\* one call of on_step on the store
Call(name, s) ==
    CASE name = "detect_new_code" ->
            LET r == detect_new_code(s)
            IN [s |-> [s EXCEPT !.functions = r.fns, !.branches = r.brs],
                exc |-> r.exc]
      [] name = "annotate_context" -> [s |-> annotate_context(s), exc |-> "none"]
      [] name = "context_display" -> [s |-> context_display(s), exc |-> "none"]
      [] name = "update_breakpoints" -> [s |-> update_breakpoints(s), exc |-> "none"]
      [] name = "navigate_to_rip" -> [s |-> navigate_to_rip(s), exc |-> "none"]

\* the calls one after the other; an exception ends the pass where it is raised
RECURSIVE RunCalls(_, _, _)
RunCalls(s, calls, trace) ==
    IF calls = <<>> THEN [s |-> s, trace |-> trace, exc |-> "none"]
    ELSE LET r == Call(Head(calls), s)
         IN IF r.exc # "none"
            THEN [s |-> r.s, trace |-> Append(trace, Head(calls)), exc |-> r.exc]
            ELSE RunCalls(r.s, Tail(calls), Append(trace, Head(calls)))

on_step(s) == RunCalls(s, OnStepCalls, <<>>)

\* Fault: the worker goes from the adapter straight to memory_dirty.
ThreadNextSkipsStop(pc) ==
    CASE pc = "adapter" -> "memory_dirty"
      [] OTHER -> "none"

\* performResumeThread and its siblings, lines 123-126: what the worker
\* does after each of its calls
ThreadNext(pc) ==
    CASE pc = "adapter" -> "handle_stop_return"
      [] pc = "handle_stop_return" -> "memory_dirty"
      [] OTHER -> "none"

Min(a, b) == IF a < b THEN a ELSE b

\* The next state holds the store a handler leaves behind.
Commit(s) ==
    /\ connected' = s.connected
    /\ registers' = s.registers
    /\ functions' = s.functions
    /\ branches' = s.branches
    /\ comments' = s.comments
    /\ tags' = s.tags
    /\ highlights' = s.highlights
    /\ breakpoints' = s.breakpoints
    /\ state' = s.state
    /\ regs' = s.regs
    /\ stack' = s.stack
    /\ registers_widget' = s.registers_widget
    /\ stack_widget' = s.stack_widget
    /\ bp_widget' = s.bp_widget
    /\ modules_widget' = s.modules_widget
    /\ threads_widget' = s.threads_widget
    /\ thread_menu' = s.thread_menu
    /\ last_ip' = s.last_ip
    /\ view' = s.view
    /\ needs_update' = s.needs_update

\* lines 256-262 and 271-277: detect_new_code translates the target of a
\* call or jump once it has found it in the module of the binary
DiscoveryTranslates(s) ==
    IF ~s.connected \/ insn(s).operation = "UNDECODABLE"
       \/ (get_module_for_addr(ip(s)) = original_filename /\ ~Readable(local_ip(s)))
       \/ insn(s).operation \notin {"LLIL_CALL", "LLIL_JUMP", "LLIL_JUMP_TO"}
    THEN {}
    ELSE LET remote_target == evaluate_llil(s.registers, memory, insn(s).dest)
         IN IF remote_target.kind = "int"
               /\ get_module_for_addr(remote_target.val) = original_filename
            THEN {remote_target.val}
            ELSE {}

\* lines 320-323: update_highlights translates the ip of a connected session
HighlightTranslates(s) == IF s.connected THEN {ip(s)} ELSE {}

\* DebugView.navigate, lines 134-135
NavigateTranslates(addr) == IF is_local_addr(addr) THEN {addr} ELSE {}

\* the remote addresses a call of on_step hands to remote_addr_to_local
Translates(name, s) ==
    CASE name = "detect_new_code" -> DiscoveryTranslates(s)
      [] name = "context_display" -> HighlightTranslates(s)
      [] name = "navigate_to_rip" ->
            NavigateTranslates(IF ~s.connected THEN entry_point ELSE ip(s))
      [] OTHER -> {}

\* on_step runs on the store s a handler has prepared; the record of the
\* pass says what it called, what detect_new_code did, how it ended and
\* which remote addresses it had translated.  n counts the passes made on
\* the current stop.
OnStep(s, n) ==
    \E r \in {on_step(s)} :
           /\ Commit(r.s)
           /\ pass' = [n |-> IF s.connected THEN Min(n + 1, MaxPasses) ELSE n,
                       trace |-> r.trace,
                       created |-> r.s.functions \ s.functions,
                       exc |-> r.exc,
                       translated |-> UNION {Translates(r.trace[i], s) :
                                                i \in 1 .. Len(r.trace)}]

-----------------------------------------------------------------------------
(* The handlers of the control surface, each on the foreground.             *)

InitialMemory == [a \in Mapped |-> IF a < StackTop THEN 0 ELSE (a - StackTop + ModBase) % 256]

FreeWorker == CHOOSE w \in Workers :
                 workers[w].pc = "none" /\ \A v \in Workers : workers[v].pc = "none" => w <= v

\* binjaplug.debug_run: launch, the target halts at its first stop, on_step
PerformRun ==
    /\ ActionEnabled("Run")
    /\ \E r \in Stops :
          OnStep([Store EXCEPT !.connected = TRUE, !.registers = r], 0)
    /\ UNCHANGED <<program, memory, extra_annotations, memory_editor,
                   thread_selected, break_pending, workers>>

\* Fault: the breakpoints are dropped with the connection.
DisconnectDropsBreakpoints ==
    /\ OnStep([Store EXCEPT !.connected = FALSE, !.state = "INACTIVE",
                            !.breakpoints = {}], pass.n)
    /\ UNCHANGED <<program, memory, extra_annotations, memory_editor,
                   thread_selected, break_pending, workers>>

\* binjaplug.debug_quit / debug_detach: drop the connection, INACTIVE, on_step
Disconnect ==
    /\ OnStep([Store EXCEPT !.connected = FALSE, !.state = "INACTIVE"], pass.n)
    /\ UNCHANGED <<program, memory, extra_annotations, memory_editor,
                   thread_selected, break_pending, workers>>

PerformQuit == ActionEnabled("Quit") /\ Disconnect

PerformDetach == ActionEnabled("Detach") /\ Disconnect

\* lines 128-129, 138-139, 148-149, 158-159 of ControlsWidget.py
StartThread(action, newState) ==
    /\ ActionEnabled(action)
    /\ \E w \in Workers : workers[w].pc = "none"
    /\ state' = newState
    /\ workers' = [workers EXCEPT ![FreeWorker] =
                      [pc |-> "adapter", reason |-> "none"]]
    /\ UNCHANGED <<connected, registers, program, memory, functions, branches,
                   comments, tags, highlights, breakpoints, extra_annotations,
                   regs, stack, registers_widget, stack_widget, bp_widget,
                   modules_widget, threads_widget, thread_menu, last_ip, view,
                   needs_update, memory_editor, thread_selected, break_pending,
                   pass>>

PerformResume == StartThread("Resume", "RUNNING")

PerformStepInto == StartThread("StepInto", "BUSY_STEPPING")

PerformStepOver == StartThread("StepOver", "BUSY_STEPPING")

PerformStepReturn == StartThread("StepReturn", "BUSY_STEPPING")

\* The worker's blocking round-trip ends: the adapter answers with a stop
\* reason, and a live target has moved to its next stop.
AdapterReturn(w) ==
    /\ workers[w].pc = "adapter"
    /\ \E reason \in {"stop", "exit"} :
          /\ workers' = [workers EXCEPT ![w] =
                            [pc |-> ThreadNext(workers[w].pc), reason |-> reason]]
          /\ IF connected /\ reason = "stop"
             THEN /\ \E r \in Stops : registers' = r
                  /\ pass' = [pass EXCEPT !.n = 0]
             ELSE UNCHANGED <<registers, pass>>
    /\ break_pending' = FALSE
    /\ UNCHANGED <<connected, program, memory, functions, branches, comments, tags,
                   highlights, breakpoints, extra_annotations, state, regs, stack,
                   registers_widget, stack_widget, bp_widget, modules_widget,
                   threads_widget, thread_menu, last_ip, view, needs_update,
                   memory_editor, thread_selected>>

\* binjaplug.handle_stop_return on the foreground: an exited process ends
\* the session, any other reason is a stop; then on_step.  The worker waits
\* for the call and goes on when it is over.
HandleStopReturn(w) ==
    /\ workers[w].pc = "handle_stop_return"
    /\ OnStep(IF workers[w].reason = "exit"
              THEN [Store EXCEPT !.connected = FALSE, !.state = "INACTIVE"]
              ELSE Store, pass.n)
    /\ workers' = [workers EXCEPT ![w] =
                      [pc |-> ThreadNext(workers[w].pc), reason |-> "none"]]
    /\ UNCHANGED <<program, memory, extra_annotations, memory_editor,
                   thread_selected, break_pending>>

\* binjaplug.memory_dirty on the foreground, the worker's last call
MemoryDirty(w) ==
    /\ workers[w].pc = "memory_dirty"
    /\ needs_update' = TRUE
    /\ workers' = [workers EXCEPT ![w] = Idle]
    /\ UNCHANGED <<connected, registers, program, memory, functions, branches,
                   comments, tags, highlights, breakpoints, extra_annotations,
                   state, regs, stack, registers_widget, stack_widget, bp_widget,
                   modules_widget, threads_widget, thread_menu, last_ip, view,
                   memory_editor, thread_selected, break_pending, pass>>

\* Fault: a tag is created whether or not the function has one there.
breakpoint_tag_add_again(s, a) ==
    context_display(
        [s EXCEPT !.tags =
            @ (+) SetToBag({<<f[1], a>> :
                     f \in get_functions_containing(s.functions, a)})])

\* lines 372-381: the tags after breakpoint_tag_add, then context_display
breakpoint_tag_add(s, a) ==
    context_display(
        [s EXCEPT !.tags =
            @ (+) SetToBag({<<f[1], a>> :
                     f \in {g \in get_functions_containing(s.functions, a) :
                               CopiesIn(<<g[1], a>>, s.tags) = 0}})])

\* lines 386-400: highlights and tags after breakpoint_tag_del, then
\* context_display
breakpoint_tag_del(s, a) ==
    context_display(
        [s EXCEPT !.highlights =
                      SetHighlight(@, get_functions_containing(s.functions, a),
                                   a, "NoHighlightColor"),
                  !.tags = [t \in DOMAIN @ \ {<<f[1], a>> :
                                   f \in get_functions_containing(s.functions, a)}
                              |-> @[t]]])

\* cb_bp_toggle in the static view, lines 432-439
CbBpToggle(address) ==
    /\ LET bp == <<original_filename, address - LocalBase>>
           s == Store
       IN IF bp \in breakpoints
          THEN OnStep([breakpoint_tag_del(s, address)
                          EXCEPT !.breakpoints = @ \ {bp}], pass.n)
          ELSE OnStep(breakpoint_tag_add(
                          [s EXCEPT !.breakpoints = @ \cup {bp}], address), pass.n)
    /\ UNCHANGED <<program, memory, extra_annotations, memory_editor,
                   thread_selected, break_pending, workers>>

\* cb_bp_toggle in the debug view, lines 426-430 and 439: the breakpoint set
\* resolves the address against the base of the static image
CbBpToggleDebugView(address) ==
    /\ LET bp == <<original_filename, address - LocalBase>>
       IN OnStep([Store EXCEPT !.breakpoints =
                     IF bp \in @ THEN @ \ {bp} ELSE @ \cup {bp}], pass.n)
    /\ UNCHANGED <<program, memory, extra_annotations, memory_editor,
                   thread_selected, break_pending, workers>>

\* binjaplug.debug_restart: the target is launched again and halts at its
\* first stop, on_step
PerformRestart ==
    /\ ActionEnabled("Restart")
    /\ connected
    /\ \E r \in Stops : OnStep([Store EXCEPT !.registers = r], 0)
    /\ UNCHANGED <<program, memory, extra_annotations, memory_editor,
                   thread_selected, break_pending, workers>>

-----------------------------------------------------------------------------

NoPass == [n |-> 0, trace |-> <<>>, created |-> {}, exc |-> "none",
           translated |-> {}]

\* DebuggerUI.__init__ on a session that is not connected
InitUI ==
    /\ connected = FALSE
    /\ registers = [rax |-> program.rax, rsp |-> StackTop, rip |-> ModBase]
    /\ functions = {}
    /\ branches = {}
    /\ comments = {}
    /\ tags = EmptyBag
    /\ highlights = {}
    /\ breakpoints = {}
    /\ state = "INACTIVE"
    /\ regs = <<>>
    /\ stack = <<>>
    /\ registers_widget = <<>>
    /\ stack_widget = <<>>
    /\ bp_widget = {}
    /\ modules_widget = "empty"
    /\ threads_widget = <<>>
    /\ thread_menu = <<>>
    /\ last_ip = 0
    /\ view = [raw |-> FALSE, addr |-> entry_point]
    /\ needs_update = TRUE
    /\ memory_editor = [addr |-> entry_point, refreshes |-> 0]
    /\ thread_selected = [tid |-> Head(ThreadIds), selects |-> 0]
    /\ break_pending = FALSE
    /\ workers = [w \in Workers |-> Idle]
    /\ pass = NoPass

InitState == memory = InitialMemory /\ InitUI

\* "debugger.extra_annotations" has default false (ui.py line 40)
Init ==
    /\ program \in Sessions(Programs, UniformExtents)
    /\ extra_annotations = FALSE
    /\ InitState

Next ==
    \/ PerformRun
    \/ PerformQuit
    \/ PerformDetach
    \/ PerformResume
    \/ PerformStepInto
    \/ PerformStepOver
    \/ PerformStepReturn
    \/ \E w \in Workers : AdapterReturn(w)
    \/ \E w \in Workers : HandleStopReturn(w)
    \/ \E w \in Workers : MemoryDirty(w)
    \/ \E a \in ToggleAddrs : CbBpToggle(a)

Spec == Init /\ [][Next]_vars

-----------------------------------------------------------------------------
(* The discovery specification: a user who waits for each command to be    *)
(* over before issuing the next one, on every program above.               *)

Quiet == \A w \in Workers : workers[w].pc = "none"

InitDiscovery ==
    /\ program \in Sessions(DiscoveryPrograms, Extents)
    /\ extra_annotations = FALSE
    /\ InitState

NextDiscovery ==
    \/ Quiet /\ PerformRun
    \/ Quiet /\ PerformQuit
    \/ Quiet /\ PerformStepInto
    \/ \E w \in Workers : AdapterReturn(w)
    \/ \E w \in Workers : HandleStopReturn(w)
    \/ \E w \in Workers : MemoryDirty(w)
    \/ \E a \in ToggleAddrs : Quiet /\ CbBpToggle(a)

SpecDiscovery == InitDiscovery /\ [][NextDiscovery]_vars

\* The evaluation specification: the same user, on the programs whose call
\* and jump targets are the expressions above.
InitEvaluation ==
    /\ program \in Sessions(EvaluationPrograms, {[a \in Image |-> 1]})
    /\ extra_annotations = FALSE
    /\ InitState

SpecEvaluation == InitEvaluation /\ [][NextDiscovery]_vars

\* The breakpoint specification: the same user, who toggles breakpoints in
\* the static view and in the debug view and restarts the target.
DebugViewAddrs == {A1}

StaticViewAddrs == {LocalBase, LocalBase + 1}

InitBreakpoints ==
    /\ program \in BreakpointSessions
    /\ extra_annotations = FALSE
    /\ InitState

NextBreakpoints ==
    \/ Quiet /\ PerformRun
    \/ Quiet /\ PerformQuit
    \/ Quiet /\ PerformRestart
    \/ Quiet /\ PerformStepInto
    \/ \E w \in Workers : AdapterReturn(w)
    \/ \E w \in Workers : HandleStopReturn(w)
    \/ \E w \in Workers : MemoryDirty(w)
    \/ \E a \in StaticViewAddrs : Quiet /\ CbBpToggle(a)
    \/ \E a \in DebugViewAddrs : Quiet /\ CbBpToggleDebugView(a)

SpecBreakpoints == InitBreakpoints /\ [][NextBreakpoints]_vars

\* The tag specification: the same user, on analyses with functions of one
\* and of two addresses, who also toggles in the debug view at the address
\* the static view toggles at (the raw pane of a session that is not
\* connected shows the addresses of the static image).
InitTags ==
    /\ program \in Sessions(Programs, UniformExtents)
    /\ extra_annotations = FALSE
    /\ InitState

NextTags ==
    \/ NextDiscovery
    \/ \E a \in ToggleAddrs : Quiet /\ CbBpToggleDebugView(a)

SpecTags == InitTags /\ [][NextTags]_vars

\* The user changes "debugger.extra_annotations" in the settings.
SetExtraAnnotations(b) ==
    /\ extra_annotations # b
    /\ extra_annotations' = b
    /\ UNCHANGED <<connected, registers, program, memory, functions, branches,
                   comments, tags, highlights, breakpoints, state, regs, stack,
                   registers_widget, stack_widget, bp_widget, modules_widget,
                   threads_widget, thread_menu, last_ip, view, needs_update,
                   memory_editor, thread_selected, break_pending, workers,
                   pass>>

\* Fault: the tick refreshes and leaves the flag set.
UpdateTimerEventKeepsFlag ==
    /\ IF needs_update
       THEN /\ memory_editor.refreshes < MaxTicks
            /\ memory_editor' = [addr |-> IF ~connected THEN 0 ELSE memory_editor.addr,
                                 refreshes |-> memory_editor.refreshes + 1]
       ELSE UNCHANGED memory_editor
    /\ UNCHANGED <<connected, registers, program, memory, functions, branches,
                   comments, tags, highlights, breakpoints, extra_annotations,
                   state, regs, stack, registers_widget, stack_widget, bp_widget,
                   modules_widget, threads_widget, thread_menu, last_ip, view,
                   needs_update, thread_selected, break_pending, workers, pass>>

\* DebugView.updateTimerEvent, lines 149-156: a tick of the 200 ms timer on
\* the foreground.  The refresh sends the memory editor to address 0 when
\* the session is not connected, and leaves it where it is otherwise.
UpdateTimerEvent ==
    /\ IF needs_update
       THEN /\ memory_editor.refreshes < MaxTicks
            /\ needs_update' = FALSE
            /\ memory_editor' = [addr |-> IF ~connected THEN 0 ELSE memory_editor.addr,
                                 refreshes |-> memory_editor.refreshes + 1]
       ELSE UNCHANGED <<needs_update, memory_editor>>
    /\ UNCHANGED <<connected, registers, program, memory, functions, branches,
                   comments, tags, highlights, breakpoints, extra_annotations,
                   state, regs, stack, registers_widget, stack_widget, bp_widget,
                   modules_widget, threads_widget, thread_menu, last_ip, view,
                   thread_selected, break_pending, workers, pass>>

\* The timer specification: the same user, and the timer of the view.
InitTimer ==
    /\ program \in Sessions(Programs, UniformExtents)
    /\ extra_annotations = FALSE
    /\ InitState

NextTimer ==
    \/ NextDiscovery
    \/ UpdateTimerEvent

SpecTimer == InitTimer /\ [][NextTimer]_vars

\* performBreak, ControlsWidget.py lines 118-119: binjaplug.debug_break asks
\* the adapter to interrupt the target; the command in flight is the one
\* that answers.  A target whose run command has already answered is not
\* running any more, and there is nothing to interrupt.
PerformBreak ==
    /\ ActionEnabled("Break")
    /\ break_pending' = (\E w \in Workers : workers[w].pc = "adapter")
    /\ UNCHANGED <<connected, registers, program, memory, functions, branches,
                   comments, tags, highlights, breakpoints, extra_annotations,
                   state, regs, stack, registers_widget, stack_widget, bp_widget,
                   modules_widget, threads_widget, thread_menu, last_ip, view,
                   needs_update, memory_editor, thread_selected, workers, pass>>

\* The break specification: the same user, who lets the target run free
\* and interrupts it.  An interrupted target answers, and the foreground
\* gets to the calls the workers have queued for it.
InitBreak ==
    /\ program \in Sessions(Programs, UniformExtents)
    /\ extra_annotations = FALSE
    /\ InitState

NextBreak ==
    \/ NextDiscovery
    \/ Quiet /\ PerformResume
    \/ PerformBreak

\* What the steps of a worker do to its position: the round trip to the
\* adapter answers (line 124), and the foreground runs the two calls the
\* worker waits for (execute_on_main_thread_and_wait, lines 125-126).
Answers(w) ==
    /\ workers[w].pc = "adapter"
    /\ \E reason \in {"stop", "exit"} :
          workers' = [workers EXCEPT ![w] = [pc |-> ThreadNext("adapter"),
                                             reason |-> reason]]

GoesOn(w) ==
    /\ workers[w].pc \in {"handle_stop_return", "memory_dirty"}
    /\ \E reason \in {"none"} :
          workers' = [workers EXCEPT ![w] = [pc |-> ThreadNext(workers[w].pc),
                                             reason |-> reason]]

\* An interrupted target answers, and the main thread gets to the calls
\* queued on it.
SpecBreak ==
    /\ InitBreak
    /\ [][NextBreak]_vars
    /\ WF_workers(\E w \in Workers : break_pending /\ Answers(w))
    /\ WF_workers(\E w \in Workers : GoesOn(w))

\* The annotation specification: the same user, who also switches the
\* option on and off.
InitAnnotations ==
    /\ program \in Sessions(DiscoveryPrograms, UniformExtents)
    /\ extra_annotations = FALSE
    /\ InitState

NextAnnotations ==
    \/ NextDiscovery
    \/ \E b \in BOOLEAN : SetExtraAnnotations(b)

SpecAnnotations == InitAnnotations /\ [][NextAnnotations]_vars

\* The stack specification: the same user, on targets whose stack lies at
\* the bottom of the address space.
InitStack ==
    /\ program \in StackSessions
    /\ memory \in LowMemories
    /\ extra_annotations = FALSE
    /\ InitUI

SpecStack == InitStack /\ [][NextDiscovery]_vars

\* Fault: the selection is forwarded in both stopped states.
SelectThreadInEveryStop(tid) ==
    /\ \E i \in DOMAIN thread_menu : thread_menu[i] = tid
    /\ IF state \in {"STOPPED", "STOPPED_EXTERN"}
       THEN /\ thread_selected.selects < MaxSelects
            /\ thread_selected' = [tid |-> tid,
                                   selects |-> thread_selected.selects + 1]
            /\ \E r \in Stops :
                  Commit(context_display([Store EXCEPT !.registers = r]))
       ELSE UNCHANGED <<connected, registers, functions, branches, comments,
                        tags, highlights, breakpoints, state, regs, stack,
                        registers_widget, stack_widget, bp_widget,
                        modules_widget, threads_widget, thread_menu, last_ip,
                        view, needs_update, thread_selected>>
    /\ UNCHANGED <<program, memory, extra_annotations, memory_editor,
                   break_pending, workers, pass>>

\* select_thread, ControlsWidget.py lines 211-218, behind an entry of the
\* thread menu: in state STOPPED the adapter selects the thread, whose
\* registers are at one of the stops of the program, and the context is
\* displayed again; in any other state the request is only reported.
SelectThread(tid) ==
    /\ \E i \in DOMAIN thread_menu : thread_menu[i] = tid
    /\ IF state = "STOPPED"
       THEN /\ thread_selected.selects < MaxSelects
            /\ thread_selected' = [tid |-> tid,
                                   selects |-> thread_selected.selects + 1]
            /\ \E r \in Stops :
                  Commit(context_display([Store EXCEPT !.registers = r]))
       ELSE UNCHANGED <<connected, registers, functions, branches, comments,
                        tags, highlights, breakpoints, state, regs, stack,
                        registers_widget, stack_widget, bp_widget,
                        modules_widget, threads_widget, thread_menu, last_ip,
                        view, needs_update, thread_selected>>
    /\ UNCHANGED <<program, memory, extra_annotations, memory_editor,
                   break_pending, workers, pass>>

\* The thread specification: the same user, who also lets the target run
\* free and picks threads from the menu, whatever the state.
InitThreads ==
    /\ program \in Sessions(Programs, UniformExtents)
    /\ extra_annotations = FALSE
    /\ InitState

NextThreads ==
    \/ NextDiscovery
    \/ Quiet /\ PerformResume
    \/ \E i \in DOMAIN ThreadIds : SelectThread(ThreadIds[i])

SpecThreads == InitThreads /\ [][NextThreads]_vars

\* The disconnection specification: the same user, who also quits or
\* detaches while the command is in flight.
InitDisconnect ==
    /\ program \in Sessions(Programs, UniformExtents)
    /\ extra_annotations \in BOOLEAN
    /\ InitState

NextDisconnect ==
    \/ NextDiscovery
    \/ Quiet /\ PerformResume
    \/ PerformQuit
    \/ PerformDetach

SpecDisconnect == InitDisconnect /\ [][NextDisconnect]_vars

\* The load specification: the same user, on the programs whose call and
\* jump targets are loads.
InitLoads ==
    /\ program \in Sessions(LoadPrograms, {[a \in Image |-> 1]})
    /\ memory \in LoadMemories
    /\ extra_annotations = FALSE
    /\ InitUI

SpecLoads == InitLoads /\ [][NextDiscovery]_vars

\* The wide specification: the same user, on the programs whose call and
\* jump targets leave the width of an address.
InitWide ==
    /\ program \in Sessions(WidePrograms, UniformExtents)
    /\ extra_annotations = FALSE
    /\ InitState

SpecWide == InitWide /\ [][NextDiscovery]_vars

-----------------------------------------------------------------------------
(* What the properties below speak about.                                   *)

InModule(r) == get_module_for_addr(r) = original_filename

Covered(fns, a) == get_functions_containing(fns, a) # {}

InsnAt(rgs) == program.code[rgs["rip"]]

IsCallAt(rgs) == InsnAt(rgs).operation = "LLIL_CALL"

IsJumpAt(rgs) == InsnAt(rgs).operation \in {"LLIL_JUMP", "LLIL_JUMP_TO"}

TargetAt(rgs) == evaluate_llil(rgs, memory, InsnAt(rgs).dest)

ResolvesInBinary(rgs) == TargetAt(rgs).kind = "int" /\ InModule(TargetAt(rgs).val)

LocalIpAt(rgs) == remote_addr_to_local(rgs["rip"])

LocalTargetAt(rgs) == remote_addr_to_local(TargetAt(rgs).val)

\* The functions once step 1 of the discovery has looked at the ip.
AfterStepOne(fns, rgs) ==
    IF InModule(rgs["rip"]) /\ Readable(LocalIpAt(rgs)) /\ ~Covered(fns, LocalIpAt(rgs))
    THEN fns \cup {<<LocalIpAt(rgs), program.extent[LocalIpAt(rgs)]>>}
    ELSE fns

\* Every adapter answer has been handled on the foreground.
Handled == \A w \in Workers : workers[w].pc \in {"none", "memory_dirty"}

\* A step in which the foreground ran on_step: the workers stand still, or
\* one of them comes back from its wait for handle_stop_return.
ForegroundPass ==
    \/ workers' = workers
    \/ \E w \in Workers : /\ workers[w].pc = "handle_stop_return"
                          /\ workers'[w].pc = "memory_dirty"

\* A step in which detect_new_code went past its connection test.
DiscoveryRan == ForegroundPass /\ connected'

PhaseOrder ==
    <<"detect_new_code", "annotate_context", "context_display",
      "update_breakpoints", "navigate_to_rip">>

\* A step in which context_display has refreshed a connected session as
\* part of on_step.
Refreshed ==
    /\ ForegroundPass
    /\ connected'
    /\ \E n \in 1 .. Len(pass'.trace) : pass'.trace[n] = "context_display"

Window == StackRangeLo .. StackRangeHi

\* The offsets of the window that do not lead below address 0.
OffsetsFrom(sp, size) == {i * size : i \in {j \in Window : sp + j * size >= 0}}

SmallestOffset(sp, size) ==
    CHOOSE o \in OffsetsFrom(sp, size) : \A q \in OffsetsFrom(sp, size) : o <= q

\* The number a sequence of bytes stands for in a byte order.
RECURSIVE IntOf(_, _)
IntOf(bytes, order) ==
    IF bytes = <<>> THEN 0
    ELSE IF order = "LittleEndian"
    THEN Head(bytes) + 256 * IntOf(Tail(bytes), order)
    ELSE Head(bytes) * (256 ^ (Len(bytes) - 1)) + IntOf(Tail(bytes), order)

\* The value a register has in the stored snapshot.
SnapshotValue(name) ==
    regs[CHOOSE j \in 1 .. Len(regs) : regs[j].name = name].value

\* The bases the module of the analyzed binary may be loaded at, the one
\* of the session among them.
LoadBases == {0, LocalBase, ModBase, LibBase}

\* The remote addresses of the analyzed module when it is loaded at base,
\* and its local addresses.
ModuleRange(base) == base .. (base + ImgLen)

LocalModule == LocalBase .. (LocalBase + ImgLen)

\* The address of a breakpoint in the target.
AbsoluteAddress(b) == ModuleBaseOf(b[1]) + b[2]

\* A step in which update_breakpoints has run as part of on_step.
BreakpointsRefreshed ==
    /\ ForegroundPass
    /\ \E n \in 1 .. Len(pass'.trace) : pass'.trace[n] = "update_breakpoints"

HasRef(entry, dest, name) ==
    \E n \in 1 .. Len(entry.refs) :
        entry.refs[n] = [source |-> "register", dest |-> dest, register |-> name]

\* The discovery pass at this stop gets as far as evaluating the target.
Evaluates(rgs) ==
    /\ IsCallAt(rgs) \/ IsJumpAt(rgs)
    /\ InModule(rgs["rip"]) => Readable(LocalIpAt(rgs))

Supported ==
    {"LLIL_CONST", "LLIL_CONST_PTR", "LLIL_REG", "LLIL_LOAD", "LLIL_ADD",
     "LLIL_SUB", "LLIL_MUL", "LLIL_LSL", "LLIL_LSR"}

Shifts == {"LLIL_LSL", "LLIL_LSR"}

RECURSIVE ContainsUnsupported(_)
ContainsUnsupported(llil) ==
    \/ llil.operation \notin Supported
    \/ \E i \in 1 .. Len(llil.operands) : ContainsUnsupported(llil.operands[i])

\* A supported operator whose operands evaluate without an error, to
\* something the operator itself fails on: a shift by a negative count,
\* arithmetic on None, a load through None.
OperatorFails(rgs, llil) ==
    /\ llil.operation \in Supported
    /\ llil.operands # <<>>
    /\ \A i \in 1 .. Len(llil.operands) :
          evaluate_llil(rgs, memory, llil.operands[i]).kind # "raise"
    /\ \/ \E i \in 1 .. Len(llil.operands) :
             evaluate_llil(rgs, memory, llil.operands[i]).kind = "none"
       \/ /\ llil.operation \in Shifts
          /\ evaluate_llil(rgs, memory, llil.operands[2]).val < 0

RECURSIVE SomeOperatorFails(_, _)
SomeOperatorFails(rgs, llil) ==
    \/ OperatorFails(rgs, llil)
    \/ \E i \in 1 .. Len(llil.operands) : SomeOperatorFails(rgs, llil.operands[i])

\* The reference value of an expression on constants and registers.
RECURSIVE Reference(_, _)
Reference(rgs, llil) ==
    CASE llil.operation \in {"LLIL_CONST", "LLIL_CONST_PTR"} -> llil.value
      [] llil.operation = "LLIL_REG" -> rgs[llil.reg]
      [] llil.operation = "LLIL_ADD" ->
            Reference(rgs, llil.operands[1]) + Reference(rgs, llil.operands[2])
      [] llil.operation = "LLIL_SUB" ->
            Reference(rgs, llil.operands[1]) - Reference(rgs, llil.operands[2])
      [] llil.operation = "LLIL_MUL" ->
            Reference(rgs, llil.operands[1]) * Reference(rgs, llil.operands[2])
      [] llil.operation = "LLIL_LSL" ->
            Reference(rgs, llil.operands[1]) * (2 ^ Reference(rgs, llil.operands[2]))
      [] llil.operation = "LLIL_LSR" ->
            Reference(rgs, llil.operands[1]) \div (2 ^ Reference(rgs, llil.operands[2]))

\* An expression that has a reference value: constants, registers and the
\* five arithmetic operators, every shift by a count that is not negative.
RECURSIVE HasReference(_, _)
HasReference(rgs, llil) ==
    CASE llil.operation \in {"LLIL_CONST", "LLIL_CONST_PTR", "LLIL_REG"} -> TRUE
      [] llil.operation \in {"LLIL_ADD", "LLIL_SUB", "LLIL_MUL"} ->
            HasReference(rgs, llil.operands[1]) /\ HasReference(rgs, llil.operands[2])
      [] llil.operation \in Shifts ->
            /\ HasReference(rgs, llil.operands[1])
            /\ HasReference(rgs, llil.operands[2])
            /\ Reference(rgs, llil.operands[2]) >= 0
      [] OTHER -> FALSE

-----------------------------------------------------------------------------

\* C1: every on-step pass makes its calls in one fixed order: discovery,
\* annotation, context refresh, breakpoint list, navigation.  What a pass
\* has called is always a prefix of that order; a pass that ends without an
\* exception has called all of them, and a pass ended by an exception has
\* called the discovery only.
C1_PhasesInOrder ==
    /\ Len(pass.trace) <= Len(PhaseOrder)
    /\ \A i \in 1 .. Len(pass.trace) : pass.trace[i] = PhaseOrder[i]
    /\ pass.exc = "none" => Len(pass.trace) \in {0, Len(PhaseOrder)}
    /\ pass.exc # "none" => pass.trace = <<"detect_new_code">>

C1_Witness ==
    /\ connected
    /\ pass.trace = PhaseOrder
    /\ pass.created # {}

\* C2 (as stated): once a stop that a worker reported, with its ip in the
\* module of the analyzed binary, has been handled, the controller state is
\* STOPPED.
C2_ModuleStopEndsStopped ==
    (/\ connected
     /\ pass.n >= 1
     /\ Handled
     /\ \E w \in Workers : workers[w].pc = "memory_dirty"
     /\ InModule(registers["rip"]))
        => state = "STOPPED"

\* C3: a pass that completes its context refresh while connected leaves
\* the state STOPPED exactly when the local ip is readable in the image and
\* inside a function, STOPPED_EXTERN otherwise; a stop outside of every
\* module is left STOPPED_EXTERN.
C3_RefreshClassifies ==
    [][(ForegroundPass /\ connected' /\ pass'.trace = PhaseOrder)
        => /\ state' = IF Readable(LocalIpAt(registers'))
                          /\ Covered(functions', LocalIpAt(registers'))
                       THEN "STOPPED"
                       ELSE "STOPPED_EXTERN"
           /\ get_module_for_addr(registers'["rip"]) = "none"
                 => state' = "STOPPED_EXTERN"]_vars

C3_Witness ==
    /\ connected
    /\ pass.n >= 1
    /\ pass.trace = PhaseOrder
    /\ get_module_for_addr(registers["rip"]) = "none"
    /\ state = "STOPPED_EXTERN"
    /\ \E w \in Workers : workers[w].pc = "memory_dirty"

\* C4 (as stated): once every adapter answer has been handled, the session
\* is not left in RUNNING or BUSY_STEPPING.
C4_AnswerLeavesBusy ==
    Handled => state \notin {"RUNNING", "BUSY_STEPPING"}

\* C5 (as stated): a disconnected session is INACTIVE and holds no register
\* snapshot and no stack window.
C5_DisconnectClears ==
    ~connected => (state = "INACTIVE" /\ regs = <<>> /\ stack = <<>>)

\* C6 (as stated): at most one worker is inside its adapter round-trip.
C6_OneInFlight ==
    Cardinality({w \in Workers : workers[w].pc = "adapter"}) <= 1

\* C7: a worker only makes the adapter round-trip, then has
\* handle_stop_return and then memory_dirty run on the foreground, in that
\* order: the step in which a worker leaves the adapter changes nothing of
\* the database or of the UI, the stop is handled (on_step has run) in the
\* step that ends the worker's first wait, and memory is marked dirty in
\* the step that ends its second.
C7_WorkerMarshals ==
    [][\A w \in Workers :
          /\ workers'[w].pc # workers[w].pc
                => workers'[w].pc =
                      CASE workers[w].pc = "none" -> "adapter"
                        [] workers[w].pc = "adapter" -> "handle_stop_return"
                        [] workers[w].pc = "handle_stop_return" -> "memory_dirty"
                        [] workers[w].pc = "memory_dirty" -> "none"
          /\ (workers[w].pc = "adapter" /\ workers'[w].pc # "adapter")
                => UNCHANGED <<connected, functions, branches, comments, tags,
                               highlights, breakpoints, state, regs, stack,
                               registers_widget, stack_widget, bp_widget,
                               last_ip, view, needs_update>>
          /\ (workers[w].pc = "handle_stop_return"
              /\ workers'[w].pc # "handle_stop_return")
                => pass'.trace # <<>>
          /\ (workers[w].pc = "memory_dirty" /\ workers'[w].pc # "memory_dirty")
                => needs_update']_vars

C7_Witness ==
    \E w \in Workers :
        /\ workers[w].pc = "memory_dirty"
        /\ connected
        /\ pass.n = 1
        /\ pass.trace = PhaseOrder
        /\ state = "STOPPED"

\* C8 (as stated): a discovery pass on a call whose target evaluates into
\* the module of the analyzed binary, with no function containing the local
\* target, creates exactly one function, at the local target.
C8_ExactlyOneAtTarget ==
    [][(DiscoveryRan
        /\ IsCallAt(registers')
        /\ ResolvesInBinary(registers')
        /\ ~Covered(functions, LocalTargetAt(registers')))
        => /\ Cardinality(functions' \ functions) = 1
           /\ \E f \in functions' \ functions : f[1] = LocalTargetAt(registers')]_vars

\* C8 (amended): when moreover the local target is readable in the image,
\* the ip is readable if it lies in the module, and the target is still in
\* no function once step 1 has looked at the ip, the pass creates a function
\* at the local target, and nothing else but the function of step 1 at the
\* local ip.
C8_TargetCreated ==
    [][(DiscoveryRan
        /\ IsCallAt(registers')
        /\ ResolvesInBinary(registers')
        /\ Readable(LocalTargetAt(registers'))
        /\ (InModule(registers'["rip"]) => Readable(LocalIpAt(registers')))
        /\ ~Covered(AfterStepOne(functions, registers'), LocalTargetAt(registers')))
        => /\ \E f \in functions' \ functions : f[1] = LocalTargetAt(registers')
           /\ \A f \in functions' \ functions :
                 f[1] \in {LocalTargetAt(registers'), LocalIpAt(registers')}
           /\ get_function_at(functions, LocalTargetAt(registers')) = {}
           /\ branches' = branches]_vars

C8_Witness ==
    /\ connected
    /\ pass.n = 1
    /\ IsCallAt(registers)
    /\ ResolvesInBinary(registers)
    /\ Cardinality(pass.created) = 2
    /\ \E f \in pass.created : f[1] = LocalTargetAt(registers)

\* C9: a further discovery pass on the same stop changes neither the
\* functions nor the branches, and a call or jump whose target is already
\* inside a function creates no function at the target and records no
\* branch to it.
C9_Idempotent ==
    [][DiscoveryRan
        => /\ pass'.n >= 2 => (functions' = functions /\ branches' = branches)
           /\ ((IsCallAt(registers') \/ IsJumpAt(registers'))
               /\ ResolvesInBinary(registers')
               /\ Covered(functions, LocalTargetAt(registers')))
                 => /\ \A f \in functions' \ functions :
                          f[1] # LocalTargetAt(registers')
                    /\ \A b \in branches' \ branches :
                          b.dst # LocalTargetAt(registers')]_vars

C9_Witness ==
    /\ connected
    /\ pass.n >= 2
    /\ pass.trace = PhaseOrder
    /\ IsCallAt(registers) \/ IsJumpAt(registers)
    /\ ResolvesInBinary(registers)
    /\ Covered(functions, LocalTargetAt(registers))
    /\ get_function_at(functions, LocalTargetAt(registers)) = {}

C11_NoSourceFunctionFails ==
    [][(DiscoveryRan
        /\ IsJumpAt(registers')
        /\ InModule(registers'["rip"])
        /\ Readable(LocalIpAt(registers'))
        /\ ResolvesInBinary(registers')
        /\ Readable(LocalTargetAt(registers'))
        /\ ~Covered(functions, LocalIpAt(registers')))
        => pass'.exc = "Local rip is not at a function?"]_vars

\* C13: when the evaluation of the target of a call or jump raises, the
\* discovery pass ends with that error and on_step goes no further; the
\* pass records no branch and creates no function but the one step 1 has
\* created at the ip before the evaluation.
C13_EvalFailurePropagates ==
    [][(DiscoveryRan
        /\ (IsCallAt(registers') \/ IsJumpAt(registers'))
        /\ (InModule(registers'["rip"]) => Readable(LocalIpAt(registers')))
        /\ TargetAt(registers').kind = "raise")
        => /\ pass'.exc = "llil eval failed"
           /\ pass'.trace = <<"detect_new_code">>
           /\ functions' = AfterStepOne(functions, registers')
           /\ branches' = branches]_vars

C13_Witness ==
    /\ connected
    /\ IsJumpAt(registers)
    /\ TargetAt(registers).kind = "raise"
    /\ pass.exc = "llil eval failed"
    /\ pass.created = {<<LocalIpAt(registers), program.extent[LocalIpAt(registers)]>>}

\* C12 (as stated): evaluating a target expression that contains, at any
\* depth, an operator outside of the supported ones fails with the error
\* for an operation that is not implemented.
C12_UnsupportedRaisesNotImplemented ==
    [][(DiscoveryRan
        /\ Evaluates(registers')
        /\ ContainsUnsupported(InsnAt(registers').dest))
        => /\ TargetAt(registers').kind = "raise"
           /\ TargetAt(registers').what = "NotImplementedError"]_vars

\* C12 (amended): such an evaluation never returns a value, neither a number
\* nor None: it raises, and the discovery pass ends with that error.  The
\* error is the one for an operation that is not implemented unless a
\* supported operator of the expression fails on its own operands (a shift
\* by a negative count, arithmetic on or a load through a value that could
\* not be read), which may then be raised first.
C12_UnsupportedNeverReturns ==
    [][(DiscoveryRan
        /\ Evaluates(registers')
        /\ ContainsUnsupported(InsnAt(registers').dest))
        => /\ TargetAt(registers').kind = "raise"
           /\ pass'.exc = "llil eval failed"
           /\ ~SomeOperatorFails(registers', InsnAt(registers').dest)
                 => TargetAt(registers').what = "NotImplementedError"]_vars

C12_Witness ==
    /\ connected
    /\ pass.n >= 1
    /\ Evaluates(registers)
    /\ InsnAt(registers).dest.operation = "LLIL_LOAD"
    /\ ContainsUnsupported(InsnAt(registers).dest)
    /\ TargetAt(registers).what = "NotImplementedError"
    /\ pass.exc = "llil eval failed"

\* C14: the target expression of a call or jump that is built from
\* constants, constant pointers, register reads, add, subtract, multiply and
\* the two shifts (by counts that are not negative) evaluates to its
\* reference value: the operand of a constant, the current value of a
\* register, the arithmetic on the values of the operands; ADD(CONST(5),
\* CONST(3)) evaluates to 8.
C14_EvaluatesToReference ==
    [][(DiscoveryRan
        /\ Evaluates(registers')
        /\ HasReference(registers', InsnAt(registers').dest))
        => /\ TargetAt(registers')
                 = IntValue(Reference(registers', InsnAt(registers').dest))
           /\ pass'.exc # "llil eval failed"
           /\ InsnAt(registers').dest = Bin("LLIL_ADD", Const(5), Const(3))
                 => TargetAt(registers') = IntValue(8)]_vars

C14_Witness ==
    /\ connected
    /\ pass.n >= 1
    /\ pass.exc = "none"
    /\ Evaluates(registers)
    /\ InsnAt(registers).dest = Bin("LLIL_ADD", Const(5), Const(3))
    /\ TargetAt(registers) = IntValue(8)

\* C15: the stack window a refresh records holds only slots of index i in
\* [-8, 60] at address stack pointer + i * address size, none below
\* address 0, each with its offset i * address size and its address, in
\* strictly ascending order of offset; when the lowest slot of the window
\* that is not below address 0 is readable, it is the first one recorded.
C15_WindowOfSample ==
    [][Refreshed
        => LET sp == registers'["rsp"]
               size == program.address_size
           IN /\ \A k \in 1 .. Len(stack') :
                    /\ \E i \in Window : stack'[k].offset = i * size
                    /\ stack'[k].address = sp + stack'[k].offset
                    /\ stack'[k].address >= 0
              /\ \A k \in 1 .. Len(stack') - 1 :
                    stack'[k].offset < stack'[k + 1].offset
              /\ Len(memory_read(memory, sp + SmallestOffset(sp, size), size)) = size
                    => /\ stack' # <<>>
                       /\ stack'[1].offset = SmallestOffset(sp, size)]_vars

C15_Witness ==
    /\ connected
    /\ pass.trace = PhaseOrder
    /\ program.address_size > 1
    /\ registers["rsp"] > program.address_size
    /\ Len(stack) > 2
    /\ stack[1].offset = SmallestOffset(registers["rsp"], program.address_size)
    /\ stack[1].offset < 0
    /\ stack[1].offset > StackRangeLo * program.address_size
    /\ stack[1].address > 0

\* C16: every slot a refresh records holds exactly address-size bytes, the
\* ones read at its address; a slot whose read is short is not recorded, and
\* every slot of the window that is not below address 0 and reads in full
\* is recorded, whatever was skipped before it.
C16_ShortReadsOmitted ==
    [][Refreshed
        => LET sp == registers'["rsp"]
               size == program.address_size
           IN /\ \A k \in 1 .. Len(stack') :
                    /\ Len(stack'[k].value) = size
                    /\ stack'[k].value = memory_read(memory, stack'[k].address, size)
              /\ \A o \in OffsetsFrom(sp, size) :
                    Len(memory_read(memory, sp + o, size)) = size
                        <=> \E k \in 1 .. Len(stack') : stack'[k].offset = o]_vars

C16_Witness ==
    /\ connected
    /\ pass.trace = PhaseOrder
    /\ \E k \in 1 .. Len(stack) - 1 :
          \E o \in OffsetsFrom(registers["rsp"], program.address_size) :
              /\ stack[k].offset < o
              /\ o < stack[k + 1].offset
              /\ Len(memory_read(memory, registers["rsp"] + o, program.address_size))
                    \in 1 .. program.address_size - 1

\* C17: in the window a refresh records, a slot refers to a register of the
\* snapshot by "address" exactly when the register's value is the slot's
\* address, and by "value" exactly when the slot's bytes, read in the
\* target's byte order, are a number other than 0 that is the register's
\* value; the snapshot holds every register with its current value.
C17_CrossReferences ==
    [][Refreshed
        => /\ \A j \in 1 .. Len(RegOrder) :
                 /\ regs'[j].name = RegOrder[j]
                 /\ regs'[j].value = registers'[RegOrder[j]]
           /\ \A k \in 1 .. Len(stack') :
                 /\ \A j \in 1 .. Len(regs') :
                       /\ HasRef(stack'[k], "address", regs'[j].name)
                             <=> regs'[j].value = stack'[k].address
                       /\ HasRef(stack'[k], "value", regs'[j].name)
                             <=> /\ IntOf(stack'[k].value, program.endianness) # 0
                                 /\ regs'[j].value
                                       = IntOf(stack'[k].value, program.endianness)
                 /\ \A n \in 1 .. Len(stack'[k].refs) :
                       \E j \in 1 .. Len(regs') :
                           stack'[k].refs[n].register = regs'[j].name]_vars

C17_Witness ==
    /\ connected
    /\ pass.trace = PhaseOrder
    /\ program.endianness = "BigEndian"
    /\ program.address_size > 1
    /\ \E k \in 1 .. Len(stack) :
          /\ IntOf(stack[k].value, program.endianness) = 0
          /\ stack[k].refs = <<>>
          /\ \E j \in 1 .. Len(regs) : regs[j].value = 0
    /\ \E k \in 1 .. Len(stack) :
          /\ HasRef(stack[k], "value", "rax")
          /\ ~HasRef(stack[k], "address", "rax")
    /\ \E k \in 1 .. Len(stack) : HasRef(stack[k], "address", "rsp")

C20_DisplayDerived ==
    [][BreakpointsRefreshed
        => /\ {<<x.module, x.offset>> : x \in bp_widget'} = breakpoints'
           /\ Cardinality(bp_widget') = Cardinality(breakpoints')
           /\ \A x \in bp_widget' :
                 /\ x.enabled <=> /\ connected'
                                  /\ AbsoluteAddress(<<x.module, x.offset>>)
                                        \in program.armed
                 /\ x.address = IF connected'
                                 THEN AbsoluteAddress(<<x.module, x.offset>>)
                                 ELSE 0]_vars

C20_Witness ==
    /\ connected
    /\ pass.trace = PhaseOrder
    /\ \E x \in bp_widget : x.enabled /\ x.address = ModBase
    /\ \E x \in bp_widget : ~x.enabled /\ x.address = ModBase + 1

C22_TranslatesModuleOnly == \A r \in pass.translated : InModule(r)

\* C23: the annotation write is gated.  No step writes a comment while the
\* extra-annotations option is off, and none removes one; with the option
\* on, a step writes one comment at most, in a pass on a connected session,
\* at the local instruction pointer of the pass, where a function starts
\* and the image has bytes.
C23_AnnotationGated ==
    [][/\ comments \subseteq comments'
       /\ ~extra_annotations => comments' = comments
       /\ comments' # comments
             => /\ extra_annotations
                /\ ForegroundPass
                /\ connected'
                /\ comments' = comments \cup {LocalIpAt(registers')}
                /\ Readable(LocalIpAt(registers'))
                /\ get_function_at(functions', LocalIpAt(registers')) # {}
                /\ \E n \in 1 .. Len(pass'.trace) :
                      pass'.trace[n] = "annotate_context"]_vars

C23_Witness ==
    /\ extra_annotations
    /\ connected
    /\ pass.trace = PhaseOrder
    /\ comments = {LocalIpAt(registers)}
    /\ get_function_at(functions, LocalIpAt(registers)) # {}
    /\ Cardinality(functions) >= 2

\* C24: the timer coalesces the refreshes of the memory view.  The memory
\* view is refreshed only in a step that finds the dirty flag set and
\* leaves it clear, and that step does nothing else; while the flag is
\* clear no step refreshes, so that the notifications between two refreshes,
\* however many, are answered by one refresh.  The flag is set again by a
\* notification only: a refresh of a disconnected session sends the memory
\* editor to address 0, one of a connected session leaves it in place.
C24_TimerCoalesces ==
    [][/\ memory_editor' # memory_editor
             => /\ needs_update /\ ~needs_update'
                /\ memory_editor'.refreshes = memory_editor.refreshes + 1
                /\ memory_editor'.addr = IF connected THEN memory_editor.addr ELSE 0
       /\ (needs_update /\ ~needs_update')
             => /\ memory_editor'.refreshes = memory_editor.refreshes + 1
                /\ UNCHANGED <<connected, registers, functions, branches, comments,
                               tags, highlights, breakpoints, state, regs, stack,
                               registers_widget, stack_widget, bp_widget,
                               modules_widget, threads_widget, thread_menu,
                               last_ip, view, workers, pass>>
       /\ ~needs_update => memory_editor' = memory_editor]_vars

C24_Witness ==
    /\ connected
    /\ pass.n >= 2
    /\ pass.trace = PhaseOrder
    /\ ~needs_update
    /\ memory_editor.refreshes = 1

\* C25: break_() on a free-running target is a command of its own: the
\* step that issues it leaves the run command in flight as it is and
\* starts no other one, and it leads the session out of RUNNING, to a
\* stopped state (or to the end of the session when the process has
\* exited instead of stopping).
C25_BreakLeadsToStopped ==
    /\ [][(~break_pending /\ break_pending')
            => /\ state = "RUNNING"
               /\ workers' = workers
               /\ \E w \in Workers : workers[w].pc = "adapter"]_vars
    /\ break_pending ~> (state \in {"STOPPED", "STOPPED_EXTERN"} \/ ~connected)

\* C26: code discovery writes to the analysis database inside the analyzed
\* image only: every function a step creates and every branch it records
\* is at a local address with bytes in the static image, whose remote
\* address lies in the module of the analyzed binary; and a pass on a call
\* or jump whose target evaluates into another module or into no module
\* creates no function but the one of step 1 at the ip, and records no
\* branch.
C26_DiscoveryInsideImage ==
    [][/\ \A f \in functions' \ functions :
             Readable(f[1]) /\ InModule(local_addr_to_remote(f[1]))
       /\ \A b \in branches' \ branches :
             /\ Readable(b.src) /\ InModule(local_addr_to_remote(b.src))
             /\ Readable(b.dst) /\ InModule(local_addr_to_remote(b.dst))
             /\ get_function_at(functions', b.func) # {}
       /\ (DiscoveryRan
           /\ (IsCallAt(registers') \/ IsJumpAt(registers'))
           /\ TargetAt(registers').kind = "int"
           /\ ~InModule(TargetAt(registers').val))
             => /\ functions' \subseteq AfterStepOne(functions, registers')
                /\ branches' = branches]_vars

C26_Witness ==
    /\ connected
    /\ pass.n = 1
    /\ pass.exc = "none"
    /\ IsCallAt(registers) \/ IsJumpAt(registers)
    /\ TargetAt(registers).kind = "int"
    /\ get_module_for_addr(TargetAt(registers).val) \in {"lib", "none"}
    /\ pass.created = {<<LocalIpAt(registers), program.extent[LocalIpAt(registers)]>>}
    /\ branches = {}

\* The unsigned number the n bytes from address a on stand for on a
\* little-endian target.
RECURSIVE UnsignedAt(_, _, _)
UnsignedAt(mem, a, n) ==
    IF n = 0 THEN 0 ELSE mem[a] + 256 * UnsignedAt(mem, a + 1, n - 1)

AllMapped(mem, a, n) == \A i \in 0 .. n - 1 : a + i \in DOMAIN mem

IsLoadAt(rgs) ==
    /\ IsCallAt(rgs) \/ IsJumpAt(rgs)
    /\ InsnAt(rgs).dest.operation = "LLIL_LOAD"
    /\ evaluate_llil(rgs, memory, InsnAt(rgs).dest.operands[1]).kind = "int"

LoadAddrAt(rgs) == evaluate_llil(rgs, memory, InsnAt(rgs).dest.operands[1]).val

WidthRead(sz) == IF sz \in {1, 2, 4, 8} THEN sz ELSE 8

\* C27: a load of width 1, 2, 4 or 8 evaluates to the unsigned number that
\* exactly that many bytes at the evaluated address stand for, never to a
\* negative one; a load of any other width evaluates to what the 8 bytes
\* at the address stand for, and does not fail.  (Where the bytes are not
\* all mapped the read has no value, and the evaluation does not fail
\* either.)
C27_LoadReadsWidth ==
    [][(DiscoveryRan /\ IsLoadAt(registers'))
        => LET sz == InsnAt(registers').dest.size
               a == LoadAddrAt(registers')
           IN /\ AllMapped(memory, a, WidthRead(sz))
                    => /\ TargetAt(registers')
                             = IntValue(UnsignedAt(memory, a, WidthRead(sz)))
                       /\ TargetAt(registers').val >= 0
              /\ ~AllMapped(memory, a, WidthRead(sz))
                    => TargetAt(registers') = NoneValue
              /\ pass'.exc # "llil eval failed"]_vars

C27_Witness ==
    /\ connected
    /\ pass.n >= 1
    /\ pass.exc = "none"
    /\ IsLoadAt(registers)
    /\ InsnAt(registers).dest.size = 3
    /\ LoadAddrAt(registers) = 2
    /\ TargetAt(registers) = IntValue(259)

\* A step in which the foreground handles the stop return of worker w.
StopReturnHandled(w) ==
    /\ workers[w].pc = "handle_stop_return"
    /\ workers'[w].pc = "memory_dirty"

\* C28: when the session is disconnected by the time a worker's stop
\* return is handled (quit or detach while the command was in flight, or
\* the process has exited), the pass of that stop return runs all of
\* on_step and discovers and annotates nothing, leaves the registers,
\* modules, threads and stack empty, does not set the state to STOPPED or
\* STOPPED_EXTERN, and navigates to the entry point of the binary.
C28_LateReturnDisconnected ==
    [][\A w \in Workers :
          (StopReturnHandled(w) /\ ~connected')
            => /\ pass'.trace = PhaseOrder
               /\ pass'.exc = "none"
               /\ pass'.created = {}
               /\ pass'.translated = {}
               /\ functions' = functions
               /\ branches' = branches
               /\ comments' = comments
               /\ registers_widget' = <<>>
               /\ modules_widget' = "empty"
               /\ threads_widget' = <<>>
               /\ thread_menu' = <<>>
               /\ stack_widget' = <<>>
               /\ state' \notin {"STOPPED", "STOPPED_EXTERN"}
               /\ view'.addr = entry_point]_vars

\* The late stop return has been handled: the target had stopped again (no
\* pass counted on that stop: the session was gone when the return was
\* handled), at a stop that is not the entry point.
C28_Witness ==
    /\ ~connected
    /\ state = "INACTIVE"
    /\ \E w \in Workers : workers[w].pc = "memory_dirty"
    /\ pass.n = 0
    /\ pass.trace = PhaseOrder
    /\ registers["rip"] # A0
    /\ functions # {}
    /\ view.addr = entry_point

\* C29: the adapter takes a thread_select command, and the context is
\* displayed again outside of a pass of on_step, only in steps from state
\* STOPPED, for a thread of the menu; from STOPPED_EXTERN, RUNNING,
\* BUSY_STEPPING and INACTIVE no step does either.
C29_SelectOnlyWhenStopped ==
    [][/\ thread_selected' # thread_selected
            => /\ state = "STOPPED"
               /\ \E i \in DOMAIN thread_menu :
                     thread_menu[i] = thread_selected'.tid
               /\ thread_selected'.selects = thread_selected.selects + 1
               /\ registers_widget' = RegsSnapshot(registers')
               /\ pass' = pass
       /\ (pass' = pass /\ workers' = workers
           /\ <<registers, regs, registers_widget, stack_widget, state>>'
                 # <<registers, regs, registers_widget, stack_widget, state>>)
            => /\ state = "STOPPED"
               /\ thread_selected' # thread_selected]_vars

C29_Witness ==
    /\ connected
    /\ thread_selected = [tid |-> ThreadIds[2], selects |-> 1]
    /\ state = "STOPPED_EXTERN"
    /\ registers_widget = RegsSnapshot(registers)
    /\ pass.n = 1

\* The key of the breakpoint a toggle at a static address is about.
KeyOf(a) == <<original_filename, a - LocalBase>>

C31_StateAndViewAgree ==
    [][(DiscoveryRan /\ pass'.trace = PhaseOrder /\ pass'.exc = "none")
        => /\ state' \in {"STOPPED", "STOPPED_EXTERN"}
           /\ view'.raw <=> state' = "STOPPED_EXTERN"
           /\ (~view'.raw /\ view'.addr = LocalIpAt(registers'))
                 <=> state' = "STOPPED"]_vars

\* Both cases have been seen on one session: a stop outside of the module
\* of the binary is shown raw at its remote address, after a stop inside a
\* function of the binary had been shown in the static disassembly.
C31_Witness ==
    /\ connected
    /\ pass.n = 1
    /\ pass.trace = PhaseOrder
    /\ pass.exc = "none"
    /\ ~InModule(registers["rip"])
    /\ state = "STOPPED_EXTERN"
    /\ view = [raw |-> TRUE, addr |-> registers["rip"]]
    /\ functions # {}

\* C32: add, subtract, multiply and the shifts are computed on integers of
\* any size and sign, and nothing cuts the result to the width of an
\* address: the target is the reference value of the expression, negative
\* or past the address space as it may be, and it is that value discovery
\* looks up in the module table, so that a target outside of the address
\* space creates no function and no branch even where the value cut to
\* the address width is an address of the analyzed binary.
C32_TargetUntruncated ==
    [][(DiscoveryRan
        /\ Evaluates(registers')
        /\ HasReference(registers', InsnAt(registers').dest))
        => LET v == Reference(registers', InsnAt(registers').dest)
           IN /\ TargetAt(registers') = IntValue(v)
              /\ pass'.exc # "llil eval failed"
              /\ (v < 0 \/ v >= AddrSpace)
                    => /\ functions' \subseteq AfterStepOne(functions, registers')
                       /\ branches' = branches
                       /\ v \notin pass'.translated
              /\ (v \in 0 .. AddrSpace - 1 /\ InModule(v))
                    => v \in pass'.translated]_vars

\* A call whose target is past the address space, and an address of the
\* analyzed binary once cut to the address width: the pass has created
\* the function of step 1 at the ip and nothing at that address.
C32_Witness ==
    /\ connected
    /\ pass.n = 1
    /\ pass.exc = "none"
    /\ IsCallAt(registers)
    /\ TargetAt(registers).kind = "int"
    /\ TargetAt(registers).val >= AddrSpace
    /\ InModule(TargetAt(registers).val % AddrSpace)
    /\ pass.created = {<<LocalIpAt(registers), program.extent[LocalIpAt(registers)]>>}
    /\ get_function_at(functions,
                       remote_addr_to_local(TargetAt(registers).val % AddrSpace)) = {}

====
